---- MODULE Spec2Model ----
(***************************************************************************)
(* State-machine model of the animated greeting page:                      *)
(*   - UnfoldingPaper / PaperMesh (src/src/UnfoldingPaper.tsx): the        *)
(*     open/animating/closed controller and the GSAP fold timeline, and    *)
(*     the earlier version of the same component in src/unnamed/part_005;  *)
(*   - the shuffle bowl (App in src/index.tsx, InteractiveBowlSection in   *)
(*     src/unnamed/part_003): shuffle cycle timers and the unseen pool.    *)
(*                                                                         *)
(* Units: lengths are in thousandths of a scene unit (3.5 -> 3500),        *)
(* angles in degrees (Math.PI -> 180), times in milliseconds, GSAP         *)
(* progress and eased ratios in per-mille (1 -> 1000), timeScale in        *)
(* tenths (1.5 -> 15).                                                     *)
(***************************************************************************)
EXTENDS Integers, Sequences, FiniteSets, TLC

VARIABLES
  \* ---- UnfoldingPaper (parent component) ----
  version,        \* which UnfoldingPaper file runs: "current" or "part_005"
  mounted,        \* an UnfoldingPaper instance is in the React tree
  crashed,        \* React threw while rendering it (hook count changed)
  inst,           \* number of instances mounted so far (identity of the current one)
  isOpen,         \* prop isOpen
  isAnimating,    \* useState isAnimating
  isFullyOpen,    \* useState isFullyOpen
  rendered,       \* the last render returned the overlay (Canvas + PaperMesh), not null
  effectPending,  \* the [isOpen] effect of the last commit has not run yet
  hooksChanged,   \* the last render ran a different number of hooks than the one before
  \* ---- PaperMesh (child, rendered inside the Canvas) ----
  mesh,           \* the mounted PaperMesh instance and the props of its last render
  tl,             \* tl.current: the GSAP timeline of the mounted PaperMesh
  orphan,         \* a timeline whose PaperMesh unmounted while it was running
  h,              \* history of the paper (observations the properties read)
  \* ---- shuffle bowl ----
  bowl,           \* React state of the bowl component
  timers,         \* pending setTimeout / setInterval callbacks, in scheduling order
  hb,             \* history of the bowl
  \* ---- text of PaperMesh ----
  text,           \* the <Text> elements, charRefs, populatedRefsCount and the last reveal
  \* ---- NetflixBackground ----
  nf,             \* props, window width, image lists, POSTER_CACHE and sessionStorage
  \* ---- ErrorBoundary ----
  eb,             \* the ErrorBoundary instance: props, state and its last render
  \* ---- text of PaperMesh, line-based variant (src/unnamed/part_004) ----
  lt              \* the <Text> lines, textLineRefs, refsReady and the reveal timeouts

foldVars == <<version, mounted, crashed, inst, isOpen, isAnimating, isFullyOpen, rendered,
              effectPending, hooksChanged, mesh, tl, orphan, h>>
\* Everything but the bowl.
paperVars == <<foldVars, text, nf, eb, lt>>
bowlVars == <<bowl, timers, hb>>
vars == <<version, mounted, crashed, inst, isOpen, isAnimating, isFullyOpen, rendered,
          effectPending, hooksChanged, mesh, tl, orphan, h, bowl, timers, hb, text, nf, eb, lt>>

(***************************************************************************)
(* Bounds of the model (not program constants).                            *)
(***************************************************************************)
MaxMounts == 2      \* UnfoldingPaper instances mounted in one behaviour
MaxCount == 2       \* history counters saturate here

Min(a, b) == IF a < b THEN a ELSE b
Bump(n) == Min(n + 1, MaxCount)

(***************************************************************************)
(* Paper geometry and poses.                                               *)
(***************************************************************************)
PAPER_WIDTH == 3500
PAPER_HEIGHT == 4500
FOLD_ANIMATION_DURATION == 600
HALF_PAPER_WIDTH == PAPER_WIDTH \div 2
HALF_PAPER_HEIGHT == PAPER_HEIGHT \div 2
QUARTER_PAPER_WIDTH == PAPER_WIDTH \div 4
QUARTER_PAPER_HEIGHT == PAPER_HEIGHT \div 4
PI == 180

\* segments.*.position.set(...) at timeline creation; rotations start at 0.
BasePose ==
  [tlRotX |-> 0, trRotX |-> 0, blRotX |-> 0, brRotX |-> 0,
   tlPosY |-> HALF_PAPER_HEIGHT \div 2, trPosY |-> HALF_PAPER_HEIGHT \div 2,
   blPosY |-> -(HALF_PAPER_HEIGHT \div 2), brPosY |-> -(HALF_PAPER_HEIGHT \div 2),
   tlPosZ |-> 20, trPosZ |-> 10,
   grpRotY |-> 0, grpPosX |-> 0, grpPosY |-> 0, grpPosZ |-> 0]

\* gsap.set(...) of the "snap to UNFOLDED" branch.
SetUnfolded(p) ==
  [p EXCEPT !.tlRotX = 0, !.trRotX = 0,
            !.tlPosY = HALF_PAPER_HEIGHT \div 2, !.trPosY = HALF_PAPER_HEIGHT \div 2,
            !.grpRotY = 0, !.grpPosX = 0, !.grpPosZ = 0]

\* A FOLDED branch that also turns the bottom segments over.
SetFoldedAllSegments(p) ==
  [p EXCEPT !.tlRotX = -PI, !.trRotX = -PI, !.blRotX = -PI, !.brRotX = -PI,
            !.tlPosY = p.blPosY + QUARTER_PAPER_HEIGHT,
            !.trPosY = p.brPosY + QUARTER_PAPER_HEIGHT,
            !.grpPosX = -HALF_PAPER_WIDTH, !.grpPosY = 0, !.grpPosZ = 5,
            !.grpRotY = -PI]

\* gsap.set(...) of the "FOLDED" branch.
SetFolded(p) ==
  [p EXCEPT !.tlRotX = -PI, !.trRotX = -PI,
            !.tlPosY = p.blPosY + QUARTER_PAPER_HEIGHT,
            !.trPosY = p.brPosY + QUARTER_PAPER_HEIGHT,
            !.grpPosX = -HALF_PAPER_WIDTH, !.grpPosY = 0, !.grpPosZ = 5,
            !.grpRotY = -PI]

UNFOLDED == SetUnfolded(BasePose)
FOLDED == SetFolded(BasePose)

(***************************************************************************)
(* The timeline: tweens, their placement, easing, and the pose at a        *)
(* playhead time.                                                          *)
(***************************************************************************)
StageOneOffset == 100     \* position parameter "+=0.1"
Stagger == 50             \* stagger: 0.05
StageOneStart(i) == StageOneOffset + i * Stagger
StageOneEnd(i) == StageOneStart(i) + FOLD_ANIMATION_DURATION
\* Stage 2 placed with "<", at the start of the tween added before it.
StageTwoAtPrevious == StageOneStart(0)
StageTwoStart == StageOneEnd(1)      \* appended at the end of the timeline
StageTwoEnd == StageTwoStart + (FOLD_ANIMATION_DURATION * 12) \div 10
Duration == StageTwoEnd

Tweens ==
  { [prop |-> "tlRotX",  to |-> 0, s |-> StageOneStart(0), e |-> StageOneEnd(0)],
    [prop |-> "trRotX",  to |-> 0, s |-> StageOneStart(1), e |-> StageOneEnd(1)],
    [prop |-> "tlPosY",  to |-> HALF_PAPER_HEIGHT \div 2,
                                   s |-> StageOneStart(0), e |-> StageOneEnd(0)],
    [prop |-> "trPosY",  to |-> HALF_PAPER_HEIGHT \div 2,
                                   s |-> StageOneStart(1), e |-> StageOneEnd(1)],
    [prop |-> "grpRotY", to |-> 0, s |-> StageTwoStart, e |-> StageTwoEnd],
    [prop |-> "grpPosX", to |-> 0, s |-> StageTwoStart, e |-> StageTwoEnd],
    [prop |-> "grpPosZ", to |-> 0, s |-> StageTwoStart, e |-> StageTwoEnd] }

\* The playhead is sampled at these times (animation frames of the ticker).
Frames == <<0, StageOneStart(0), StageOneStart(1), 400, StageOneEnd(0),
            StageOneEnd(1), 1110, Duration>>
LastFrame == Len(Frames)

\* ease 'power3.inOut' on a per-mille ratio.
Ease(p) ==
  LET quart(q) == (((q * q) \div 1000) * ((q * q) \div 1000)) \div 1000
  IN IF p < 500 THEN quart(2 * p) \div 2
                ELSE 1000 - quart(2 * (1000 - p)) \div 2

\* ratio of a tween at playhead time t
Ratio(tw, t) ==
  IF t <= tw.s THEN 0
  ELSE IF t >= tw.e THEN 1000
  ELSE ((t - tw.s) * 1000) \div (tw.e - tw.s)

\* A tween that starts from 0 instead of the value it finds.
TweenValueFromZero(tw, from, t) ==
  (tw.to * Ease(Ratio(tw, t))) \div 1000

TweenValue(tw, from, t) ==
  from + ((tw.to - from) * Ease(Ratio(tw, t))) \div 1000

\* Pose written by the timeline at playhead time t, the tweens having recorded
\* `from` as their start values.
PoseAt(from, t) ==
  [f \in DOMAIN from |->
     IF \E tw \in Tweens : tw.prop = f
     THEN LET tw == CHOOSE x \in Tweens : x.prop = f
          IN TweenValue(tw, from[f], t)
     ELSE from[f]]


(***************************************************************************)
(* PaperMesh: props, timeline construction, direction control.             *)
(***************************************************************************)
NoMesh == [mounted |-> FALSE, isUnfolding |-> FALSE, isParentAnimating |-> FALSE,
           cbIsOpen |-> FALSE, isTextVisible |-> FALSE, segments |-> FALSE]

NoTl == [built |-> FALSE, gen |-> 0, pos |-> 1, playing |-> FALSE, reversed |-> FALSE,
         timeScale |-> 10, from |-> BasePose,
         capUnfolding |-> FALSE, capParentAnimating |-> FALSE, capIsOpen |-> FALSE,
         owner |-> 0]

\* The props UnfoldingPaper passes to <PaperMesh .../>; cbIsOpen is the isOpen
\* value closed over by the handleAnimationComplete passed as onAnimationComplete.
MeshProps(o, a, f) ==
  IF version = "part_005"
  THEN \* isUnfolding={isOpen}; no isParentAnimating, no isTextVisible prop
       [mounted |-> TRUE, isUnfolding |-> o, isParentAnimating |-> FALSE,
        cbIsOpen |-> o, isTextVisible |-> FALSE, segments |-> TRUE]
  ELSE [mounted |-> TRUE, isUnfolding |-> (o \/ f), isParentAnimating |-> a,
        cbIsOpen |-> o, isTextVisible |-> (f /\ o), segments |-> TRUE]

\* if (!isOpen && !isAnimating) return null;
RenderOut(o, a) == ~(~o /\ ~a)

\* tl.current.progress(), per-mille
Progress(t) == (Frames[t.pos] * 1000) \div Duration
\* tl.current.isActive()
IsActive(t) == t.playing

\* A build that snaps to the end whenever the target is open.
BuildTimelineSnapOnOpen(p, owner, gen) ==
  [built |-> TRUE, gen |-> gen,
   pos |-> IF p.isUnfolding THEN LastFrame ELSE 1,
   playing |-> FALSE, reversed |-> FALSE, timeScale |-> 10,
   from |-> IF p.isUnfolding THEN SetUnfolded(BasePose) ELSE SetFolded(BasePose),
   capUnfolding |-> p.isUnfolding,
   capParentAnimating |-> p.isParentAnimating,
   capIsOpen |-> p.cbIsOpen,
   owner |-> owner]

\* The build effect's body when tl.current is null: gsap.timeline({...}), the
\* tweens, and the initial snap. The callbacks close over the props of this
\* render (capUnfolding, capParentAnimating) and over its onAnimationComplete
\* (capIsOpen) for as long as the timeline lives.
BuildTimeline(p, owner, gen) ==
  LET snap == p.isUnfolding /\ ~p.isParentAnimating
  IN [built |-> TRUE, gen |-> gen,
      pos |-> IF snap THEN LastFrame ELSE 1,
      playing |-> FALSE, reversed |-> FALSE, timeScale |-> 10,
      from |-> IF snap THEN SetUnfolded(BasePose) ELSE SetFolded(BasePose),
      capUnfolding |-> p.isUnfolding,
      capParentAnimating |-> p.isParentAnimating,
      capIsOpen |-> p.cbIsOpen,
      owner |-> owner]

\* part_005's build effect body: sets the FOLDED pose and assigns a new paused
\* timeline, at time 0, whose callbacks call props.onAnimationComplete unguarded.
BuildTimeline005(p, owner, gen) ==
  [built |-> TRUE, gen |-> gen, pos |-> 1,
   playing |-> FALSE, reversed |-> FALSE, timeScale |-> 10,
   from |-> SetFolded(BasePose),
   capUnfolding |-> p.isUnfolding, capParentAnimating |-> p.isParentAnimating,
   capIsOpen |-> p.cbIsOpen, owner |-> owner]

\* The build effect: the current file creates the timeline only when tl.current
\* is null; part_005 creates one on every run.
BuildEffect(t, p, owner) ==
  IF ~p.segments THEN t   \* if (!segments || !mainGroupRef.current || ...) return;
  ELSE IF version = "part_005" THEN BuildTimeline005(p, owner, Bump(t.gen))
  ELSE IF ~t.built THEN BuildTimeline(p, owner, Bump(t.gen)) ELSE t

\* part_005's control effect: timeScale(1).play() / timeScale(1.5).reverse(0);
\* reverse(0) moves the playhead to the end before reversing.
ControlEffect005(t, isUnfolding) ==
  IF ~t.built THEN t
  ELSE IF isUnfolding
       THEN [t EXCEPT !.timeScale = 10, !.reversed = FALSE,
                      !.playing = (t.pos < LastFrame)]
       ELSE [t EXCEPT !.timeScale = 15, !.reversed = TRUE, !.pos = LastFrame,
                      !.playing = TRUE]

\* A control effect that does not ask whether the timeline is running.
ControlEffectUnchecked(t, isUnfolding) ==
  IF ~t.built THEN t
  ELSE IF isUnfolding
       THEN IF Progress(t) < 1000
            THEN [t EXCEPT !.playing = TRUE, !.reversed = FALSE]
            ELSE t
       ELSE IF Progress(t) > 0
            THEN [t EXCEPT !.timeScale = 15, !.playing = TRUE, !.reversed = TRUE]
            ELSE t

\* The control effect ([props.isUnfolding]).
ControlEffect(t, isUnfolding) ==
  IF version = "part_005" THEN ControlEffect005(t, isUnfolding)
  ELSE IF ~t.built THEN t
  ELSE IF isUnfolding
       THEN IF Progress(t) < 1000 /\ ~IsActive(t)
            THEN [t EXCEPT !.playing = TRUE, !.reversed = FALSE]
            ELSE t
       ELSE IF Progress(t) > 0 /\ ~IsActive(t)
            THEN [t EXCEPT !.timeScale = 15, !.playing = TRUE, !.reversed = TRUE]
            ELSE t

\* Pose of the scene objects the timeline t drives.
Pose(t) == PoseAt(t.from, Frames[t.pos])

\* One ticker frame of a running timeline.
Advance(t) ==
  LET np == IF t.reversed THEN t.pos - 1 ELSE t.pos + 1
      done == (np = 1 /\ t.reversed) \/ (np = LastFrame /\ ~t.reversed)
  IN [t EXCEPT !.pos = np, !.playing = ~done]

\* Completion callbacks that call the handler without a guard.
CallbackUnguarded(t) == TRUE

\* The guard of onComplete / onReverseComplete, on the captured props.
CallbackGuard(t) ==
  IF version = "part_005" THEN TRUE
  ELSE IF t.reversed THEN ~t.capUnfolding /\ t.capParentAnimating
                     ELSE t.capUnfolding /\ t.capParentAnimating

(***************************************************************************)
(* History of the paper.                                                   *)
(***************************************************************************)
NoFire == [fired |-> FALSE, reverse |-> FALSE, called |-> FALSE,
           latestOpen |-> FALSE, latestUnfolding |-> FALSE,
           latestParentAnimating |-> FALSE, afterUnmount |-> FALSE]

NoCall == [called |-> FALSE, isOpen |-> FALSE, isFullyOpen |-> FALSE,
           isAnimating |-> FALSE]

HInit ==
  [openRequested |-> FALSE,  \* mounted with isOpen true, request still standing
   fwdDone |-> FALSE,        \* a forward run completed since the last open request
   rapidClose |-> FALSE,     \* closed before the forward run completed
   closeFromFull |-> FALSE,  \* close request received in FULLY_OPEN, still standing
   closeRequested |-> FALSE, \* close request received while FULLY_OPEN or ANIMATING
   revDone |-> FALSE,        \* a reverse run completed since the last close request
   lastFire |-> NoFire,      \* the last completion callback that fired
   buildRuns |-> 0,          \* runs of its build effect
   tlRuns |-> <<>>,          \* the last runs tl.current completed ("fwd", "rev")
   hookError |-> FALSE,      \* React threw on a render of PaperMesh (hook count changed)
   closeCall |-> NoCall,     \* the last call of onClose and the state it came from
   orphanAdvanced |-> FALSE, \* a timeline advanced after its PaperMesh unmounted
   orphanCalled |-> FALSE]   \* ... and invoked the parent's completion handler

(***************************************************************************)
(* The text of PaperMesh and NetflixBackground before they mount.          *)
(***************************************************************************)
\* No state update of populatedRefsCount is queued.
NoUpdates == [reset |-> FALSE, delta |-> 0]
NoReveal == [ran |-> FALSE, targets |-> <<>>]

NoText ==
  [mounted |-> FALSE,
   message |-> 0,        \* props.message of the last render (index into Messages)
   visible |-> FALSE,    \* props.isTextVisible of the last render
   count |-> 0,          \* populatedRefsCount as the last render read it
   pending |-> NoUpdates, \* setPopulatedRefsCount calls since that render
   charRefs |-> <<>>,    \* charRefs.current: element ids, 0 for null or a hole
   els |-> <<>>,         \* the mounted <Text> elements, by index
   opacity |-> <<>>,     \* material.opacity of each mounted element, per mille
   tweens |-> <<>>,      \* a reveal tween of that material is pending or running
   hidPending |-> FALSE, \* the last commit hid the text while a reveal tween was pending
   nextUid |-> 1,        \* id of the next <Text> instance
   changed |-> FALSE,    \* the last commit came with another message
   changedWhileRegistered |-> FALSE, \* ... while every target was registered
   reveal |-> NoReveal]  \* the reveal animation the last commit started

\* NetflixBackground before it mounts, in a page just loaded in a fresh
\* browser session.
NoPage ==
  [mounted |-> FALSE,
   imageUrls |-> <<>>,       \* the imageUrls prop (<<>>: absent or empty)
   customImages |-> <<>>,    \* useCustomImages: customImages
   scans |-> <<>>,           \* the loadCustomImages runs that wait for an image
   imgCheck |-> "none",      \* sessionStorage 'img-check-<url>' of the scanned image
   innerWidth |-> 1024,      \* window.innerWidth
   windowWidth |-> -1,       \* useWindowSize: width (-1: undefined)
   timers |-> <<>>,          \* the pending timers of useWindowSize
   timeoutId |-> 0,          \* timeoutId of the mounted hook (0: undefined)
   sinceEvent |-> 0,         \* history: time since the last call of handleResize
   updates |-> 0,            \* history: setWindowSize calls since that call
   restarted |-> FALSE,      \* history: the last handleResize cleared a pending timer
   firedAfterUnmount |-> FALSE, \* history: a debounce timer ran after the cleanup
   pageLoads |-> 1,          \* history: loads of the page in this session
   cache |-> <<>>,           \* POSTER_CACHE, entries in insertion order
   storage |-> <<>>,         \* sessionStorage 'netflix-grid-poster-cache'
   storedImages |-> <<>>,    \* sessionStorage 'netflix-grid-custom-images'
   hasStoredImages |-> FALSE,
   rowConfig |-> <<>>,       \* rowConfig of the last render
   totalVisiblePosters |-> 0,
   availableImages |-> <<>>, \* availableImages of the last render
   rowPosters |-> <<>>,      \* rowPosters of the last render
   computed |-> {},          \* history: the rows that render did not take from the cache
   shown |-> <<>>,           \* history: the first list returned per pool and row
   events |-> 0]             \* renders so far in this behaviour

\* The line-based text of part_004's PaperMesh before it mounts.
NoStale == [fired |-> FALSE, acted |-> FALSE, hidden |-> FALSE, changed |-> FALSE,
            unmounted |-> FALSE]
NoLines ==
  [mounted |-> FALSE,
   message |-> 0,        \* props.message of the last render (index into LineMessages)
   visible |-> FALSE,    \* props.isTextVisible of the last render
   refsReady |-> FALSE,  \* useState refsReady as the last render read it
   pending |-> "none",   \* the last setRefsReady since that render: "none", "true", "false"
   hasRun |-> FALSE,     \* hasRunAnimation.current
   refs |-> <<>>,        \* textLineRefs.current: element ids, 0 for null
   els |-> <<>>,         \* the mounted <Text> elements, by index
   nextUid |-> 1,        \* id of the next <Text> instance
   timeouts |-> <<>>,    \* pending reveal timeouts, with what their closures hold
   animated |-> {},      \* elements a reveal callback has started tweens on
   lastFire |-> NoStale] \* history: the last reveal timeout that fired

\* ErrorBoundary before it mounts.
NoError == [hasError |-> FALSE, error |-> 0, errorInfo |-> 0]
NoBoundary ==
  [mounted |-> FALSE,
   id |-> 0,                 \* instances mounted so far (identity of the current one)
   fallbackRender |-> FALSE, \* the fallbackRender prop is given
   state |-> NoError,        \* this.state (0: null)
   out |-> "none",           \* what the last render() returned
   caught |-> FALSE]         \* history: a boundary caught an error since the page loaded

(***************************************************************************)
(* Initial state.                                                          *)
(***************************************************************************)
PaperInit ==
  /\ version \in {"current", "part_005"}
  /\ mounted = FALSE /\ crashed = FALSE /\ inst = 0
  /\ isOpen = FALSE /\ isAnimating = FALSE /\ isFullyOpen = FALSE
  /\ rendered = FALSE /\ effectPending = FALSE /\ hooksChanged = FALSE
  /\ mesh = NoMesh /\ tl = NoTl /\ orphan = NoTl
  /\ h = HInit
  /\ text = NoText
  /\ nf = NoPage
  /\ eb = NoBoundary
  /\ lt = NoLines


(***************************************************************************)
(* UnfoldingPaper: the [isOpen] effect, the completion handler, and the    *)
(* result of a commit.                                                     *)
(***************************************************************************)
\* useEffect(() => {...}, [isOpen]): the state it leaves.
IsOpenEffect(o, a, f) ==
  IF o THEN [isAnimating |-> TRUE, isFullyOpen |-> FALSE]
  ELSE IF f \/ a THEN [isAnimating |-> TRUE, isFullyOpen |-> FALSE]
       ELSE [isAnimating |-> FALSE, isFullyOpen |-> f]

\* handleAnimationComplete, closed over isOpen = o.
HandleAnimationComplete(o, a, f) ==
  IF o THEN [isAnimating |-> FALSE, isFullyOpen |-> TRUE]
       ELSE [isAnimating |-> FALSE, isFullyOpen |-> f]

\* What a commit with state (o, a) leaves of the PaperMesh subtree: a null
\* render unmounts the Canvas; nothing kills the timeline, so one that is
\* running stays on the GSAP ticker.
NextMesh(o, a) == IF RenderOut(o, a) THEN mesh ELSE NoMesh
NextTl(o, a, nt) == IF RenderOut(o, a) THEN nt ELSE NoTl
Detached(gone, nt) == IF gone /\ nt.built /\ nt.playing THEN nt ELSE orphan

Commit(o, a, f, nt) ==
  /\ isOpen' = o /\ isAnimating' = a /\ isFullyOpen' = f
  /\ rendered' = RenderOut(o, a)
  /\ hooksChanged' = (RenderOut(o, a) # rendered)
  /\ mesh' = NextMesh(o, a)
  /\ tl' = NextTl(o, a, nt)
  /\ orphan' = Detached(~RenderOut(o, a), nt)

(***************************************************************************)
(* Actions of the paper.                                                   *)
(***************************************************************************)
\* <UnfoldingPaper isOpen={o} .../> enters the tree; first render.
MountPaper(o) ==
  /\ ~mounted /\ ~crashed /\ inst < MaxMounts /\ ~orphan.built
  /\ mounted' = TRUE /\ inst' = inst + 1
  /\ isOpen' = o /\ isAnimating' = FALSE /\ isFullyOpen' = FALSE
  /\ rendered' = RenderOut(o, FALSE)
  /\ hooksChanged' = FALSE
  /\ effectPending' = TRUE
  /\ mesh' = NoMesh /\ tl' = NoTl
  /\ h' = [h EXCEPT !.openRequested = o, !.fwdDone = FALSE, !.rapidClose = FALSE,
                    !.closeFromFull = FALSE, !.closeRequested = FALSE,
                    !.revDone = FALSE, !.lastFire = NoFire, !.buildRuns = 0,
                    !.tlRuns = <<>>]
  /\ UNCHANGED <<text, nf, eb, lt, version, crashed, orphan>>

\* A parent mounts it.
Mount(o) == MountPaper(o) /\ UNCHANGED <<bowl, timers, hb>>

\* The parent re-renders it with a new isOpen.
SetIsOpen(o) ==
  /\ mounted /\ ~effectPending /\ ~hooksChanged /\ o # isOpen
  /\ Commit(o, isAnimating, isFullyOpen, tl)
  /\ effectPending' = TRUE
  /\ h' = IF o
          THEN [h EXCEPT !.fwdDone = FALSE, !.rapidClose = FALSE,
                         !.closeFromFull = FALSE, !.closeRequested = FALSE,
                         !.revDone = FALSE]
          ELSE [h EXCEPT !.openRequested = FALSE,
                         !.rapidClose = ~h.fwdDone,
                         !.closeFromFull = isFullyOpen /\ ~isAnimating,
                         !.closeRequested = isFullyOpen \/ isAnimating,
                         !.revDone = FALSE]
  /\ UNCHANGED <<text, nf, eb, lt, bowl, timers, hb, version, mounted, crashed, inst>>

\* The overlay and the close button bound whenever the paper renders.
CloseBoundWhenRendered(o, f) == TRUE

\* Whether the committed render binds handleInternalClose: the overlay's
\* onClick is the handler only with isOpen and isFullyOpen, and the close
\* button is rendered only then.
CloseBound(o, f) == o /\ f

\* A click on the overlay or on the close button: handleInternalClose calls
\* onClose. What the parent then does with isOpen is SetIsOpen.
ClickClose ==
  /\ mounted /\ rendered /\ ~hooksChanged
  /\ CloseBound(isOpen, isFullyOpen)
  /\ h' = [h EXCEPT !.closeCall = [called |-> TRUE, isOpen |-> isOpen,
                                   isFullyOpen |-> isFullyOpen,
                                   isAnimating |-> isAnimating]]
  /\ UNCHANGED <<text, nf, eb, lt, bowl, timers, hb, version, mounted, crashed, inst,
                 isOpen, isAnimating, isFullyOpen, rendered, effectPending,
                 hooksChanged, mesh, tl, orphan>>

\* The [isOpen] effect runs.
ParentEffect ==
  /\ mounted /\ effectPending /\ ~hooksChanged
  /\ LET st == IsOpenEffect(isOpen, isAnimating, isFullyOpen)
     IN Commit(isOpen, st.isAnimating, st.isFullyOpen, tl)
  /\ effectPending' = FALSE
  /\ UNCHANGED <<text, nf, eb, lt, bowl, timers, hb, version, mounted, crashed, inst, h>>

\* The runs a timeline has completed, the last MaxCount of them.
RunsAfter(runs, reversed) ==
  LET all == Append(runs, IF reversed THEN "rev" ELSE "fwd")
  IN IF Len(all) > MaxCount THEN Tail(all) ELSE all

\* PaperMesh renders with props p and its effects run: the build effect, then
\* the control effect.
CommitMesh(p) ==
     LET first == ~mesh.mounted
         buildRuns == \/ first
                      \/ p.segments # mesh.segments
                      \/ p.cbIsOpen # mesh.cbIsOpen
                      \/ /\ version = "current"
                         /\ \/ p.isUnfolding # mesh.isUnfolding
                            \/ p.isParentAnimating # mesh.isParentAnimating
         controlRuns == first \/ p.isUnfolding # mesh.isUnfolding
         t1 == IF buildRuns THEN BuildEffect(tl, p, inst) ELSE tl
         t2 == IF controlRuns THEN ControlEffect(t1, p.isUnfolding) ELSE t1
     IN /\ mesh # p
        /\ mesh' = p
        /\ tl' = t2
        /\ orphan' = IF t1.gen # tl.gen /\ tl.built /\ tl.playing THEN tl ELSE orphan
        /\ h' = [h EXCEPT !.buildRuns = IF first THEN 1
                                        ELSE IF buildRuns THEN Bump(@) ELSE @,
                          !.tlRuns = IF t1 # tl THEN <<>> ELSE @]

\* The Canvas renders PaperMesh with the parent's current props.
MeshCommit ==
  /\ mounted /\ rendered /\ ~hooksChanged
  /\ CommitMesh(MeshProps(isOpen, isAnimating, isFullyOpen))
  /\ UNCHANGED <<text, nf, eb, lt, bowl, timers, hb, version, mounted, crashed, inst, isOpen, isAnimating,
                 isFullyOpen, rendered, effectPending, hooksChanged>>

\* One ticker frame of the mounted timeline; on reaching an end, onComplete or
\* onReverseComplete fires and may call the parent's handler.
Tick ==
  /\ mounted /\ mesh.mounted /\ tl.built /\ tl.playing
  /\ ~effectPending /\ ~hooksChanged
  /\ LET nt == Advance(tl)
         done == ~nt.playing
         call == done /\ CallbackGuard(tl)
         st == IF call THEN HandleAnimationComplete(tl.capIsOpen, isAnimating, isFullyOpen)
                       ELSE [isAnimating |-> isAnimating, isFullyOpen |-> isFullyOpen]
     IN /\ Commit(isOpen, st.isAnimating, st.isFullyOpen, nt)
        /\ h' = [h EXCEPT !.fwdDone = @ \/ (done /\ ~tl.reversed),
                          !.revDone = @ \/ (done /\ tl.reversed),
                          !.tlRuns = IF done THEN RunsAfter(@, tl.reversed) ELSE @,
                          !.lastFire =
                             IF done
                             THEN [fired |-> TRUE, reverse |-> tl.reversed,
                                   called |-> call, latestOpen |-> isOpen,
                                   latestUnfolding |-> (isOpen \/ isFullyOpen),
                                   latestParentAnimating |-> isAnimating,
                                   afterUnmount |-> FALSE]
                             ELSE @]
  /\ UNCHANGED <<text, nf, eb, lt, bowl, timers, hb, version, mounted, crashed, inst, effectPending>>

\* <UnfoldingPaper/> leaves the tree. No effect of PaperMesh returns a cleanup,
\* so a running timeline is left on the ticker.
UnmountPaper ==
  /\ mounted /\ ~effectPending /\ ~hooksChanged
  /\ mounted' = FALSE /\ rendered' = FALSE
  /\ isOpen' = FALSE /\ isAnimating' = FALSE /\ isFullyOpen' = FALSE
  /\ mesh' = NoMesh /\ tl' = NoTl
  /\ orphan' = Detached(TRUE, tl)
  /\ h' = [h EXCEPT !.openRequested = FALSE, !.rapidClose = FALSE,
                    !.closeFromFull = FALSE, !.closeRequested = FALSE]
  /\ UNCHANGED <<text, nf, eb, lt, version, crashed, inst, effectPending, hooksChanged>>

\* A parent removes it.
Unmount == UnmountPaper /\ UNCHANGED <<bowl, timers, hb>>

\* One ticker frame of a timeline that is no longer tl.current of a mounted
\* PaperMesh (the mesh unmounted, or part_005 replaced it). Its callbacks still
\* fire; the handler they call sets state only if its UnfoldingPaper is still
\* mounted.
OrphanTick ==
  /\ orphan.built /\ orphan.playing
  /\ ~effectPending /\ ~hooksChanged
  /\ LET nt == Advance(orphan)
         done == ~nt.playing
         call == done /\ CallbackGuard(orphan)
         live == mounted /\ orphan.owner = inst
         st == IF call /\ live
               THEN HandleAnimationComplete(orphan.capIsOpen, isAnimating, isFullyOpen)
               ELSE [isAnimating |-> isAnimating, isFullyOpen |-> isFullyOpen]
     IN /\ isAnimating' = st.isAnimating /\ isFullyOpen' = st.isFullyOpen
        /\ rendered' = IF mounted THEN RenderOut(isOpen, st.isAnimating) ELSE rendered
        /\ hooksChanged' = (mounted /\ RenderOut(isOpen, st.isAnimating) # rendered)
        /\ mesh' = IF mounted THEN NextMesh(isOpen, st.isAnimating) ELSE mesh
        /\ tl' = IF mounted THEN NextTl(isOpen, st.isAnimating, tl) ELSE tl
        /\ orphan' = IF ~done THEN nt
                     ELSE IF mounted /\ ~RenderOut(isOpen, st.isAnimating)
                             /\ tl.built /\ tl.playing
                          THEN tl ELSE NoTl
        /\ h' = [h EXCEPT !.orphanAdvanced = @ \/ ~(mesh.mounted /\ live),
                          !.orphanCalled = @ \/ (call /\ ~(mesh.mounted /\ live)),
                          !.lastFire =
                             IF done
                             THEN [fired |-> TRUE, reverse |-> orphan.reversed,
                                   called |-> call, latestOpen |-> isOpen,
                                   latestUnfolding |-> (isOpen \/ isFullyOpen),
                                   latestParentAnimating |-> isAnimating,
                                   afterUnmount |-> ~(mesh.mounted /\ live)]
                             ELSE @]
  /\ UNCHANGED <<text, nf, eb, lt, bowl, timers, hb, version, mounted, crashed, inst, isOpen, effectPending>>

\* PaperMesh on its own, under a parent that passes it any props: a render
\* with new props, ...
MeshRender ==
  \E u \in BOOLEAN, a \in BOOLEAN, c \in BOOLEAN :
    /\ ~mounted /\ ~crashed
    /\ CommitMesh([mounted |-> TRUE, isUnfolding |-> u, isParentAnimating |-> a,
                   cbIsOpen |-> c, isTextVisible |-> FALSE, segments |-> TRUE])
    /\ UNCHANGED <<text, nf, eb, lt, bowl, timers, hb, version, mounted, crashed, inst, isOpen,
                   isAnimating, isFullyOpen, rendered, effectPending, hooksChanged>>

\* PaperMesh with or without a textureUrl: without one, texture and segments
\* are null and the render returns the fallback mesh before the hooks that
\* follow it (characters, the two text effects). A render whose segments
\* differ in that from the previous render's runs another number of hooks, and
\* React throws; the PaperMesh leaves the tree.
ResourceRender ==
  \E x \in BOOLEAN, u \in BOOLEAN, a \in BOOLEAN :
    /\ ~mounted /\ ~crashed
    /\ IF mesh.mounted /\ x # mesh.segments
       THEN /\ mesh' = NoMesh /\ tl' = NoTl
            /\ orphan' = Detached(TRUE, tl)
            /\ h' = [h EXCEPT !.hookError = TRUE]
       ELSE /\ ~h.hookError
            /\ CommitMesh([mounted |-> TRUE, isUnfolding |-> u, isParentAnimating |-> a,
                           cbIsOpen |-> FALSE, isTextVisible |-> FALSE, segments |-> x])
    /\ UNCHANGED <<text, nf, eb, lt, bowl, timers, hb, version, mounted, crashed, inst, isOpen,
                   isAnimating, isFullyOpen, rendered, effectPending, hooksChanged>>

\* ... and a ticker frame of its timeline, whose callbacks call the parent's
\* onAnimationComplete.
MeshTick ==
  /\ ~mounted /\ mesh.mounted /\ tl.built /\ tl.playing
  /\ LET nt == Advance(tl)
         done == ~nt.playing
     IN /\ tl' = nt
        /\ h' = [h EXCEPT !.tlRuns = IF done THEN RunsAfter(@, tl.reversed) ELSE @,
                          !.lastFire =
                             IF done
                             THEN [NoFire EXCEPT !.fired = TRUE, !.reverse = tl.reversed,
                                                 !.called = CallbackGuard(tl)]
                             ELSE @]
  /\ UNCHANGED <<text, nf, eb, lt, bowl, timers, hb, version, mounted, crashed, inst, isOpen,
                 isAnimating, isFullyOpen, rendered, effectPending, hooksChanged, mesh,
                 orphan>>

(***************************************************************************)
(* ErrorBoundary, around a PaperMesh, under a parent that mounts,           *)
(* re-renders and unmounts it.                                             *)
(***************************************************************************)
MaxBoundaries == 2  \* ErrorBoundary instances mounted in one behaviour
Errors == {1, 2}    \* the errors a child throws; the component stack of e is e

\* static getDerivedStateFromError(error)
GetDerivedStateFromError(e) == [hasError |-> TRUE, error |-> e, errorInfo |-> 0]

\* A componentDidCatch whose state update replaces the state.
ComponentDidCatchReplaces(st, e, info) ==
  [hasError |-> FALSE, error |-> e, errorInfo |-> info]

\* componentDidCatch(error, errorInfo): this.setState({ error, errorInfo })
ComponentDidCatch(st, e, info) == [st EXCEPT !.error = e, !.errorInfo = info]

\* render()
BoundaryRender(st, fallbackRender) ==
  IF st.hasError
  THEN IF fallbackRender THEN "fallbackRender" ELSE "default"
  ELSE "children"

\* <ErrorBoundary fallbackRender?>...</ErrorBoundary> enters the tree.
BoundaryMount ==
  \E f \in BOOLEAN :
    /\ ~mounted /\ ~eb.mounted /\ eb.id < MaxBoundaries /\ ~orphan.built
    /\ eb' = [eb EXCEPT !.mounted = TRUE, !.id = @ + 1, !.fallbackRender = f,
                        !.state = NoError, !.out = BoundaryRender(NoError, f)]
    /\ UNCHANGED <<foldVars, bowlVars, text, nf, lt>>

\* The parent renders again, with or without a fallbackRender.
BoundaryRerender ==
  \E f \in BOOLEAN :
    /\ eb.mounted /\ f # eb.fallbackRender
    /\ eb' = [eb EXCEPT !.fallbackRender = f, !.out = BoundaryRender(eb.state, f)]
    /\ UNCHANGED <<foldVars, bowlVars, text, nf, lt>>

\* The children are rendered: PaperMesh renders, and its timeline ticks.
ChildRender == eb.mounted /\ eb.out = "children" /\ MeshRender
ChildTick == eb.mounted /\ MeshTick

\* A child throws while rendering: getDerivedStateFromError, a render with the
\* derived state, the commit (which unmounts the children; nothing kills a
\* running timeline), componentDidCatch and the render its setState causes.
ChildThrows ==
  \E e \in Errors :
    /\ eb.mounted /\ eb.out = "children"
    /\ LET st == ComponentDidCatch(GetDerivedStateFromError(e), e, e)
       IN eb' = [eb EXCEPT !.state = st, !.out = BoundaryRender(st, eb.fallbackRender),
                           !.caught = TRUE]
    /\ mesh' = NoMesh /\ tl' = NoTl
    /\ orphan' = Detached(TRUE, tl)
    /\ UNCHANGED <<bowlVars, text, nf, lt, version, mounted, crashed, inst, isOpen,
                   isAnimating, isFullyOpen, rendered, effectPending, hooksChanged, h>>

\* The parent removes the boundary, and the children with it.
BoundaryUnmount ==
  /\ eb.mounted
  /\ eb' = [eb EXCEPT !.mounted = FALSE, !.fallbackRender = FALSE, !.state = NoError,
                      !.out = "none"]
  /\ mesh' = NoMesh /\ tl' = NoTl
  /\ orphan' = Detached(TRUE, tl)
  /\ UNCHANGED <<bowlVars, text, nf, lt, version, mounted, crashed, inst, isOpen,
                 isAnimating, isFullyOpen, rendered, effectPending, hooksChanged, h>>

\* "Reload Page" of the default panel: window.location.reload().
ReloadPage ==
  /\ eb.mounted /\ eb.out = "default"
  /\ eb' = [NoBoundary EXCEPT !.id = eb.id]
  /\ mesh' = NoMesh /\ tl' = NoTl /\ orphan' = NoTl
  /\ h' = HInit
  /\ UNCHANGED <<bowlVars, text, nf, lt, version, mounted, crashed, inst, isOpen,
                 isAnimating, isFullyOpen, rendered, effectPending, hooksChanged>>

\* The early return sits between the hooks: a render that returns null runs
\* three hooks, one that returns the overlay runs four. React throws on a render
\* whose hook count differs from the previous one; nothing above UnfoldingPaper
\* catches it ...
HooksThrow ==
  /\ mounted /\ hooksChanged
  /\ crashed' = TRUE /\ mounted' = FALSE /\ rendered' = FALSE
  /\ hooksChanged' = FALSE /\ effectPending' = FALSE
  /\ mesh' = NoMesh /\ tl' = NoTl
  /\ orphan' = Detached(TRUE, tl)
  /\ UNCHANGED <<text, nf, eb, lt, bowl, timers, hb, version, inst, isOpen, isAnimating, isFullyOpen, h>>

\* ... or, on a host that does not enforce the hook count, the render goes
\* through as written.
HooksPass ==
  /\ mounted /\ hooksChanged
  /\ hooksChanged' = FALSE
  /\ UNCHANGED <<text, nf, eb, lt, bowl, timers, hb, version, mounted, crashed, inst, isOpen, isAnimating, isFullyOpen, rendered,
                 effectPending, mesh, tl, orphan, h>>


(***************************************************************************)
(* The shuffle bowl. Two components hold the same shuffle logic: App       *)
(* (src/index.tsx), which closes its modal through a 280 ms timer, and     *)
(* InteractiveBowlSection (src/unnamed/part_003), which closes             *)
(* synchronously. bowl.variant says which one a behaviour runs.            *)
(***************************************************************************)
NUM_PAPER_BITS == 10
ANIMATION_DURATION_MS == 800
SHUFFLE_HOLD_DURATION_MS == 3000
SHUFFLE_UPDATE_INTERVAL_MS == 500
CLOSE_DELAY_MS == 280

MaxPending == 2     \* pending timers beyond which the user starts nothing new
MaxRandom == 2      \* Math.random() lands on one of the first MaxRandom positions

\* initialPaperBitConfigs.map(config => config.id)
AllIds == [i \in 1 .. NUM_PAPER_BITS |-> i - 1]
Variants == {"App", "IBS"}

\* getInitialPaperBitsState(): the pile in the bowl.
InitialBits ==
  [i \in 1 .. NUM_PAPER_BITS |->
     [id |-> AllIds[i], chosen |-> FALSE, layout |-> "pile",
      dur |-> ANIMATION_DURATION_MS]]

\* getInitialPaperBitsStateResponsive() of InteractiveBowlSection: the same pile,
\* with the offsets and the scale of the small screen when isSmallScreen.
InitialBitsResponsive(small) ==
  [i \in 1 .. NUM_PAPER_BITS |->
     [InitialBits[i] EXCEPT !.layout = IF small THEN "pileSmall" ELSE "pile"]]

\* handleShuffle's first setPaperBits: every bit onto the circle.
ScatterBits(bits) ==
  [i \in DOMAIN bits |->
     [bits[i] EXCEPT !.chosen = FALSE, !.layout = "circle",
                     !.dur = ANIMATION_DURATION_MS]]

\* The scatter timeout's setPaperBits: only the transition time changes.
RetimeBits(bits) ==
  [i \in DOMAIN bits |-> [bits[i] EXCEPT !.dur = SHUFFLE_UPDATE_INTERVAL_MS]]

\* The interval's setPaperBits: random targets.
ShuffleBits(bits) ==
  [i \in DOMAIN bits |->
     [bits[i] EXCEPT !.layout = "random", !.dur = SHUFFLE_UPDATE_INTERVAL_MS]]

IndexOf(bits, id) ==
  IF \E i \in DOMAIN bits : bits[i].id = id
  THEN CHOOSE i \in DOMAIN bits : bits[i].id = id /\ \A j \in 1 .. (i - 1) : bits[j].id # id
  ELSE 0

\* A settle step that fills slot i with the i-th of the other bits.
SelectBitsSlotByIndex(bits, sel) ==
  LET selIdx == IndexOf(bits, sel)
      others == SelectSeq(bits, LAMBDA b : b.id # sel)
      final == [i \in 1 .. NUM_PAPER_BITS |->
                  IF i = selIdx
                  THEN [bits[selIdx] EXCEPT !.chosen = TRUE, !.layout = "center",
                                            !.dur = ANIMATION_DURATION_MS]
                  ELSE IF i <= Len(others)
                       THEN [others[i] EXCEPT !.chosen = FALSE, !.layout = "ring",
                                              !.dur = ANIMATION_DURATION_MS]
                       ELSE [id |-> -1, chosen |-> FALSE, layout |-> "undefined", dur |-> 0]]
  IN IF selIdx = 0 THEN bits
     ELSE SelectSeq(final, LAMBDA b : b.layout # "undefined")

\* A settle step that leaves isChosenForOpening of the other bits as it finds it.
SelectBitsKeepOthers(bits, sel) ==
  LET selIdx == IndexOf(bits, sel)
      others == SelectSeq(bits, LAMBDA b : b.id # sel)
      slot(i) == IF i < selIdx THEN i ELSE i - 1
      final == [i \in 1 .. NUM_PAPER_BITS |->
                  IF i = selIdx
                  THEN [bits[selIdx] EXCEPT !.chosen = TRUE, !.layout = "center",
                                            !.dur = ANIMATION_DURATION_MS]
                  ELSE IF slot(i) <= Len(others)
                       THEN [others[slot(i)] EXCEPT !.layout = "ring",
                                                    !.dur = ANIMATION_DURATION_MS]
                       ELSE [id |-> -1, chosen |-> FALSE, layout |-> "undefined", dur |-> 0]]
  IN IF selIdx = 0 THEN bits
     ELSE SelectSeq(final, LAMBDA b : b.layout # "undefined")

\* The settle timeout's setPaperBits: the selected bit stays at its array index,
\* the other bits fill the remaining slots in their original order.
SelectBits(bits, sel) ==
  LET selIdx == IndexOf(bits, sel)
      others == SelectSeq(bits, LAMBDA b : b.id # sel)
      slot(i) == IF i < selIdx THEN i ELSE i - 1
      final == [i \in 1 .. NUM_PAPER_BITS |->
                  IF i = selIdx
                  THEN [bits[selIdx] EXCEPT !.chosen = TRUE, !.layout = "center",
                                            !.dur = ANIMATION_DURATION_MS]
                  ELSE IF slot(i) <= Len(others)
                       THEN [others[slot(i)] EXCEPT !.chosen = FALSE, !.layout = "ring",
                                                    !.dur = ANIMATION_DURATION_MS]
                       ELSE [id |-> -1, chosen |-> FALSE, layout |-> "undefined", dur |-> 0]]
  IN IF selIdx = 0 THEN bits
     ELSE SelectSeq(final, LAMBDA b : b.layout # "undefined")

\* handlePaperTap's setPaperBits.
TapBits(bits, tappedId) ==
  [i \in DOMAIN bits |->
     [bits[i] EXCEPT !.layout = IF bits[i].id = tappedId THEN "hidden" ELSE "faded",
                     !.dur = ANIMATION_DURATION_MS \div 2]]

\* The settle step's choice of the pool: the unseen ids its closure holds, or
\* all ids when that array is empty.
IdsToPickFrom(capturedUnseen) ==
  IF Len(capturedUnseen) = 0 THEN AllIds ELSE capturedUnseen

\* idsToPickFrom.filter(id => id !== selectedNoteIdToHighlight)
NewUnseenIds(ids, sel) == SelectSeq(ids, LAMBDA id : id # sel)

\* Timers. A browser fires timer A before timer B when A was scheduled no later
\* than B with a delay no longer than B's; otherwise the order depends on when
\* the user acted, which the model leaves open.
Timer(kind, delay, id, unseen) ==
  [kind |-> kind, delay |-> delay, id |-> id, unseen |-> unseen]

CanFire(i) == \A j \in 1 .. (i - 1) : timers[j].delay > timers[i].delay

Without(sq, i) == [k \in 1 .. (Len(sq) - 1) |-> IF k < i THEN sq[k] ELSE sq[k + 1]]

\* clearInterval(id)
ClearInterval(sq, id) == SelectSeq(sq, LAMBDA t : ~(t.kind = "interval" /\ t.id = id))

\* window.setInterval returns an id no live interval has and the ref does not hold.
FreshId(sq, ref) ==
  CHOOSE n \in 1 .. (Len(sq) + 2) :
    /\ n # ref
    /\ \A i \in DOMAIN sq : ~(sq[i].kind = "interval" /\ sq[i].id = n)
    /\ \A m \in 1 .. (n - 1) :
         m = ref \/ \E i \in DOMAIN sq : sq[i].kind = "interval" /\ sq[i].id = m

HbInit ==
  [runPicked |-> {},     \* ids selected in the current run of NUM_PAPER_BITS shuffles
   runLen |-> 0,         \* completed shuffles in the current run
   repeated |-> FALSE,   \* an id was selected twice within one run
   lastSelected |-> -1,  \* the id the last settle step selected
   refilled |-> FALSE,   \* a settle step found the pool empty and refilled it
   ranAfterUnmount |-> FALSE,  \* a shuffle timer's callback ran after teardown
   closeCalled |-> FALSE]  \* handleClosePaper was called for the note last opened

\* The history after a shuffle timer's callback ran.
CallbackRan(hist) == [hist EXCEPT !.ranAfterUnmount = @ \/ ~bowl.mounted]

BowlInit ==
  /\ \E v \in Variants :
       \E s \in IF v = "IBS" THEN BOOLEAN ELSE {FALSE} :
         bowl = [variant |-> v, mounted |-> TRUE, appStatus |-> "initial",
                 isSmallScreen |-> s,
                 paperBits |-> IF v = "IBS" THEN InitialBitsResponsive(s)
                               ELSE InitialBits,
                 paperToDisplay |-> -1,
                 isPaperOpen |-> FALSE, unseenNoteIds |-> AllIds,
                 shuffleIntervalRef |-> 0]
  /\ timers = <<>>
  /\ hb = HbInit

\* setState on an unmounted component is ignored.
SetState(new) == IF bowl.mounted THEN new ELSE bowl

\* handleShuffle (the Shuffle button): what it does to the bowl.
ShuffleBowl ==
  /\ bowl.mounted
  /\ ~(bowl.appStatus = "shuffling" \/ bowl.appStatus = "selected")
  /\ Len(timers) < MaxPending
  /\ bowl' = [bowl EXCEPT !.appStatus = "shuffling", !.paperToDisplay = -1,
                          !.paperBits = ScatterBits(@)]
  /\ timers' = Append(IF bowl.shuffleIntervalRef # 0
                      THEN ClearInterval(timers, bowl.shuffleIntervalRef)
                      ELSE timers,
                      Timer("scatter", ANIMATION_DURATION_MS, 0, bowl.unseenNoteIds))
  /\ UNCHANGED hb

HandleShuffle == ShuffleBowl /\ UNCHANGED paperVars

\* The 800 ms timeout of handleShuffle: starts the interval and the hold timeout.
ScatterTimeout ==
  \E i \in DOMAIN timers :
    /\ timers[i].kind = "scatter" /\ CanFire(i)
    /\ LET rest == Without(timers, i)
           id == FreshId(rest, bowl.shuffleIntervalRef)
       IN /\ bowl' = [SetState([bowl EXCEPT !.paperBits = RetimeBits(@)])
                        EXCEPT !.shuffleIntervalRef = id]
          /\ timers' = rest \o
                       << Timer("interval", SHUFFLE_UPDATE_INTERVAL_MS, id, <<>>),
                          Timer("settle", SHUFFLE_HOLD_DURATION_MS, 0, timers[i].unseen) >>
    /\ hb' = CallbackRan(hb)
    /\ UNCHANGED paperVars

\* One run of the interval callback.
IntervalTick ==
  \E i \in DOMAIN timers :
    /\ timers[i].kind = "interval" /\ CanFire(i)
    /\ bowl' = SetState([bowl EXCEPT !.paperBits = ShuffleBits(@)])
    /\ timers' = Append(Without(timers, i), timers[i])
    /\ hb' = CallbackRan(hb)
    /\ UNCHANGED paperVars

\* The 3000 ms timeout: clears the interval the ref names, selects a note from
\* the pool its closure holds, and shows it as selected.
SettleTimeout ==
  \E i \in DOMAIN timers :
    /\ timers[i].kind = "settle" /\ CanFire(i)
    /\ LET ids == IdsToPickFrom(timers[i].unseen)
           rest == Without(timers, i)
       IN \E randomIndex \in 1 .. Min(Len(ids), MaxRandom) :
            LET sel == ids[randomIndex]
                newRun == hb.runLen = NUM_PAPER_BITS
            IN /\ bowl' = [SetState([bowl EXCEPT
                                       !.unseenNoteIds = NewUnseenIds(ids, sel),
                                       !.paperBits = SelectBits(@, sel),
                                       !.appStatus = "selected"])
                             EXCEPT !.shuffleIntervalRef = 0]
               /\ timers' = IF bowl.shuffleIntervalRef # 0
                            THEN ClearInterval(rest, bowl.shuffleIntervalRef)
                            ELSE rest
               /\ hb' = IF ~bowl.mounted THEN CallbackRan(hb)
                        ELSE IF hb.repeated THEN [hb EXCEPT !.lastSelected = sel]
                        ELSE [hb EXCEPT
                              !.runPicked = IF newRun THEN {sel}
                                           ELSE hb.runPicked \cup {sel},
                              !.runLen = IF newRun THEN 1 ELSE hb.runLen + 1,
                              !.repeated = hb.repeated \/ (~newRun /\ sel \in hb.runPicked),
                              !.lastSelected = sel,
                              !.refilled = hb.refilled \/ Len(timers[i].unseen) = 0]
    /\ UNCHANGED paperVars

\* handlePaperTap on the bit with index i: what it does to the bowl.
TapBowl ==
  \E i \in DOMAIN bowl.paperBits :
    /\ bowl.mounted
    /\ ~(bowl.appStatus # "selected" \/ ~bowl.paperBits[i].chosen)
    /\ bowl' = [bowl EXCEPT !.paperToDisplay = bowl.paperBits[i].id,
                            !.isPaperOpen = IF bowl.variant = "IBS" THEN TRUE ELSE @,
                            !.appStatus = "opened",
                            !.paperBits = TapBits(@, bowl.paperBits[i].id)]
    /\ hb' = [hb EXCEPT !.closeCalled = FALSE]
    /\ UNCHANGED timers

HandlePaperTap == TapBowl /\ UNCHANGED paperVars

\* A reset that also puts every id back into the pool.
ResetToIdleAndPool(b) ==
  [b EXCEPT !.appStatus = "initial", !.paperToDisplay = -1,
            !.isPaperOpen = FALSE, !.paperBits = InitialBits,
            !.unseenNoteIds = AllIds]

\* The reset both close paths end with.
ResetToIdle(b) ==
  [b EXCEPT !.appStatus = "initial", !.paperToDisplay = -1,
            !.isPaperOpen = FALSE,
            !.paperBits = IF b.variant = "IBS"
                          THEN InitialBitsResponsive(b.isSmallScreen)
                          ELSE InitialBits]

\* handleClosePaper: InteractiveBowlSection resets at once (the paper's onClose);
\* App starts the 280 ms timer (click on the modal or its close button).
CloseBowl ==
  /\ bowl.mounted
  /\ bowl.paperToDisplay # -1
  /\ IF bowl.variant = "IBS"
     THEN /\ bowl.isPaperOpen
          /\ bowl' = ResetToIdle(bowl)
          /\ timers' = timers
     ELSE /\ bowl.appStatus = "opened"
          /\ Len(timers) < MaxPending
          /\ bowl' = bowl
          /\ timers' = Append(timers, Timer("close", CLOSE_DELAY_MS, 0, <<>>))
  /\ hb' = [hb EXCEPT !.closeCalled = TRUE]

HandleClosePaper == CloseBowl /\ UNCHANGED paperVars

\* The 280 ms timeout of App.handleClosePaper.
CloseTimeout ==
  \E i \in DOMAIN timers :
    /\ timers[i].kind = "close" /\ CanFire(i)
    /\ bowl' = SetState(ResetToIdle(bowl))
    /\ timers' = Without(timers, i)
    /\ UNCHANGED <<hb, paperVars>>

\* The window's resize listener of useWindowSize (InteractiveBowlSection only;
\* App reads no window size), with the effect that follows the render: on the
\* idle screen the pile is laid out again for the new width.
HandleResize ==
  \E width \in {"small", "wide"} :
    /\ bowl.mounted
    /\ bowl.variant = "IBS"
    /\ LET small == (width = "small")
       IN bowl' = [bowl EXCEPT !.isSmallScreen = small,
                               !.paperBits = IF bowl.appStatus = "initial"
                                             THEN InitialBitsResponsive(small)
                                             ELSE @]
    /\ UNCHANGED <<timers, hb, paperVars>>

\* Teardown: the cleanup effect clears the interval the ref names, nothing else.
UnmountBowl ==
  /\ bowl.mounted
  /\ bowl' = [bowl EXCEPT !.mounted = FALSE]
  /\ timers' = IF bowl.shuffleIntervalRef # 0
               THEN ClearInterval(timers, bowl.shuffleIntervalRef)
               ELSE timers
  /\ UNCHANGED hb

BowlUnmount == UnmountBowl /\ UNCHANGED paperVars

(***************************************************************************)
(* InteractiveBowlSection with the UnfoldingPaper it renders:              *)
(*   {paperToDisplay && <UnfoldingPaper isOpen={isPaperOpen}               *)
(*                                      onClose={handleClosePaper} />}     *)
(* The paper is in the tree exactly while paperToDisplay is set.           *)
(***************************************************************************)
\* handlePaperTap sets paperToDisplay and isPaperOpen: the paper mounts open.
SectionTap == TapBowl /\ MountPaper(TRUE)

\* A click on the overlay or on the close button, both bound only in a render
\* with isOpen and isFullyOpen: handleInternalClose calls onClose, which is
\* handleClosePaper; it clears paperToDisplay, so the paper leaves the tree in
\* the same commit.
SectionClose ==
  /\ mounted /\ rendered /\ CloseBound(isOpen, isFullyOpen)
  /\ CloseBowl
  /\ UnmountPaper

\* handleShuffle clears paperToDisplay too.
SectionShuffle ==
  /\ ShuffleBowl
  /\ IF mounted THEN UnmountPaper ELSE UNCHANGED paperVars

\* The section leaves the tree, and the paper with it.
SectionUnmount ==
  /\ UnmountBowl
  /\ IF mounted THEN UnmountPaper ELSE UNCHANGED paperVars

(***************************************************************************)
(* The animated text of PaperMesh: one <Text> per character, registered     *)
(* through ref callbacks into charRefs and counted in populatedRefsCount.  *)
(***************************************************************************)
MaxElements == 9    \* <Text> instances one mounted PaperMesh creates

\* The messages a parent passes, as their characters.
Messages == << <<"a", "b">>, <<"a", "c">>, <<"c">>, <<"a", "b", "c">>, <<>> >>

\* useMemo(() => props.message.split(''), [props.message])
Characters(m) == Messages[m]

\* The value the next render reads from useState: a set(0) drops what was
\* queued before it, the functional updates after it add up.
ApplyUpdates(pending, count) ==
  IF pending.reset THEN pending.delta ELSE count + pending.delta

RefAt(refs, i) == IF i <= Len(refs) THEN refs[i] ELSE 0

\* charRefs.current[i] = v (the array grows when i is past its end)
SetRef(refs, i, v) ==
  [k \in 1 .. (IF i > Len(refs) THEN i ELSE Len(refs)) |->
     IF k = i THEN v ELSE RefAt(refs, k)]

\* Reconciliation of the <Text key={`${char}-${index}`}> children: an element
\* is kept when the same character stays at the same index, the others are
\* created; nothing is rendered while isTextVisible is false.
Kept(old, chars, i) == i <= Len(old) /\ old[i].char = chars[i]

\* A render that keeps the <Text> elements mounted while the text is hidden.
ReconcileAlways(old, chars, v, nextUid) ==
  [i \in 1 .. Len(chars) |->
     IF Kept(old, chars, i) THEN old[i]
     ELSE [char |-> chars[i],
           uid |-> nextUid + Cardinality({j \in 1 .. (i - 1) : ~Kept(old, chars, j)})]]

Reconcile(old, chars, v, nextUid) ==
  IF ~v THEN <<>>
  ELSE [i \in 1 .. Len(chars) |->
          IF Kept(old, chars, i) THEN old[i]
          ELSE [char |-> chars[i],
                uid |-> nextUid + Cardinality({j \in 1 .. (i - 1) : ~Kept(old, chars, j)})]]

Created(old, chars, v) ==
  IF ~v THEN 0 ELSE Cardinality({j \in 1 .. Len(chars) : ~Kept(old, chars, j)})

\* The ref callbacks of the previous render, called with null: every element
\* of that render, kept or removed, since the callback is a new function in
\* each render. A registered index is cleared and counted down.
DetachRefs(refs, old) ==
  [k \in 1 .. Len(refs) |-> IF k <= Len(old) THEN 0 ELSE refs[k]]

Detached_Count(refs, old) ==
  Cardinality({k \in 1 .. Len(old) : RefAt(refs, k) # 0})

\* The ref callbacks of the new render, called with their elements.
RECURSIVE AttachRefs(_, _, _)
AttachRefs(refs, new, i) ==
  IF i > Len(new) THEN refs
  ELSE AttachRefs(IF RefAt(refs, i) # new[i].uid THEN SetRef(refs, i, new[i].uid) ELSE refs,
                  new, i + 1)

Attached_Count(refs, new) ==
  Cardinality({k \in 1 .. Len(new) : RefAt(refs, k) # new[k].uid})

\* charRefs.current.filter(Boolean)
ValidTargets(refs) == SelectSeq(refs, LAMBDA r : r # 0)

\* A reveal condition that trusts populatedRefsCount.
RevealGateCountOnly(v, count, n, valid) == v /\ count = n /\ n > 0

\* The condition under which the reveal effect animates: isTextVisible,
\* populatedRefsCount === characters.length, characters.length > 0, and the
\* check of validTargets.length that follows.
RevealGate(v, count, n, valid) == v /\ count = n /\ n > 0 /\ valid = n

\* A reset effect with an empty dependency list.
ResetOnlyOnMount(first, oldMessage, newMessage) == first

\* The reset effect, deps [characters]: it runs on mount and when the message
\* is another one.
ResetEffectRuns(first, oldMessage, newMessage) == first \/ oldMessage # newMessage

\* One render and commit of PaperMesh with props (m, v), as far as its text
\* goes: the queued state updates are applied, the children reconciled, the
\* old ref callbacks detached and the new ones attached, then the passive
\* effects run in source order, the reset effect before the reveal effect.
TextCommit(t, m, v, first) ==
  LET chars == Characters(m)
      n == Len(chars)
      newCount == ApplyUpdates(t.pending, t.count)
      new == Reconcile(t.els, chars, v, t.nextUid)
      refs1 == DetachRefs(t.charRefs, t.els)
      refs2 == AttachRefs(refs1, new, 1)
      delta == Attached_Count(refs1, new) - Detached_Count(t.charRefs, t.els)
      resetRuns == ResetEffectRuns(first, t.message, m)
      refs3 == IF resetRuns THEN [k \in 1 .. n |-> 0] ELSE refs2
      queued == IF resetRuns THEN [reset |-> TRUE, delta |-> 0]
                ELSE [reset |-> FALSE, delta |-> delta]
      revealRuns == first \/ v # t.visible \/ newCount # t.count \/ t.message # m
      valid == ValidTargets(refs3)
      animates == revealRuns /\ RevealGate(v, newCount, n, Len(valid))
      \* the hide branch: gsap.set(material, { opacity: 0 }) on every valid target
      hides == revealRuns /\ ~animates /\ ~v /\ Len(valid) > 0 /\ n > 0
      target(i) == i <= Len(refs3) /\ refs3[i] # 0 /\ refs3[i] = new[i].uid
      kept(i) == i <= Len(t.els) /\ t.els[i].uid = new[i].uid
  IN [mounted |-> TRUE, message |-> m, visible |-> v,
      count |-> newCount,
      \* a queue that leaves the state as it is causes no further commit
      pending |-> IF ApplyUpdates(queued, newCount) = newCount THEN NoUpdates ELSE queued,
      charRefs |-> refs3,
      els |-> new,
      \* a new material has opacity 1; the reveal sets 0 and starts a tween to 1
      opacity |-> [i \in 1 .. Len(new) |->
                     IF (animates \/ hides) /\ target(i) THEN 0
                     ELSE IF kept(i) THEN t.opacity[i] ELSE 1000],
      tweens |-> [i \in 1 .. Len(new) |->
                    IF animates /\ target(i) THEN TRUE
                    ELSE IF kept(i) THEN t.tweens[i] ELSE FALSE],
      hidPending |-> ~first /\ t.visible /\ ~v /\ (\E i \in DOMAIN t.tweens : t.tweens[i]),
      nextUid |-> t.nextUid + Created(t.els, chars, v),
      changed |-> ~first /\ t.message # m,
      changedWhileRegistered |->
        \/ t.changedWhileRegistered
        \/ ~first /\ t.message # m /\ t.visible /\ v
           /\ t.count = Len(t.els) /\ Len(ValidTargets(t.charRefs)) = Len(t.els)
           /\ Len(t.els) > 0,
      reveal |-> IF animates THEN [ran |-> TRUE, targets |-> valid] ELSE NoReveal]

\* PaperMesh mounts with a message.
TextMount ==
  \E m \in DOMAIN Messages, v \in BOOLEAN :
    /\ ~text.mounted
    /\ text' = TextCommit(NoText, m, v, TRUE)
    /\ UNCHANGED <<foldVars, bowlVars, nf, eb, lt>>

\* The parent renders it with another message or another isTextVisible.
TextSetProps ==
  \E m \in DOMAIN Messages, v \in BOOLEAN :
    /\ text.mounted
    /\ m # text.message \/ v # text.visible
    /\ text.nextUid + Created(text.els, Characters(m), v) <= MaxElements + 1
    /\ text' = TextCommit(text, m, v, FALSE)
    /\ UNCHANGED <<foldVars, bowlVars, nf, eb, lt>>

\* The render a changed populatedRefsCount causes.
TextRerender ==
  /\ text.mounted
  /\ ApplyUpdates(text.pending, text.count) # text.count
  /\ text' = TextCommit(text, text.message, text.visible, FALSE)
  /\ UNCHANGED <<foldVars, bowlVars, nf, eb, lt>>

\* A reveal tween of a mounted element runs to its end: opacity 1.
TextTween ==
  \E i \in DOMAIN text.tweens :
    /\ text.mounted /\ text.tweens[i]
    /\ text' = [text EXCEPT !.opacity[i] = 1000, !.tweens[i] = FALSE]
    /\ UNCHANGED <<foldVars, bowlVars, nf, eb, lt>>

\* PaperMesh unmounts; its refs and state go with it.
TextUnmount ==
  /\ text.mounted
  /\ text' = NoText
  /\ UNCHANGED <<foldVars, bowlVars, nf, eb, lt>>

(***************************************************************************)
(* The text of part_004's PaperMesh: one <Text> per wrapped line, its ref   *)
(* kept in textLineRefs, refsReady set when every line has registered, and *)
(* the reveal started from a 100 ms timeout.                               *)
(***************************************************************************)
MaxLineElements == 6   \* <Text> instances one mounted PaperMesh creates
MaxTimeouts == 2       \* reveal timeouts pending at a time

\* The wrapped lines of the messages a parent passes, as their number.
LineMessages == <<1, 2, 1>>
TextLines(m) == LineMessages[m]

\* refsReady as the next render reads it.
ApplyReady(pending, ready) ==
  IF pending = "true" THEN TRUE ELSE IF pending = "false" THEN FALSE ELSE ready

\* textLineRefs.current.filter(Boolean)
FilledRefs(refs) == SelectSeq(refs, LAMBDA r : r # 0)

\* The ref callbacks of the previous render, called with null on detach; n is
\* the textLines.length their closure holds.
RECURSIVE DetachLineRefs(_, _, _, _)
DetachLineRefs(st, old, n, i) ==
  IF i > Len(old) THEN st
  ELSE LET differs == i > Len(st.refs) \/ st.refs[i] # 0
           refs == IF differs THEN SetRef(st.refs, i, 0) ELSE st.refs
           ready == differs /\ Len(FilledRefs(refs)) = n
       IN DetachLineRefs([refs |-> refs,
                          pending |-> IF ready THEN "true" ELSE st.pending],
                         old, n, i + 1)

\* The ref callbacks of the new render, called with their elements.
RECURSIVE AttachLineRefs(_, _, _, _)
AttachLineRefs(st, new, n, i) ==
  IF i > Len(new) THEN st
  ELSE LET differs == i > Len(st.refs) \/ st.refs[i] # new[i]
           refs == IF differs THEN SetRef(st.refs, i, new[i]) ELSE st.refs
           ready == differs /\ Len(FilledRefs(refs)) = n
       IN AttachLineRefs([refs |-> refs,
                          pending |-> IF ready THEN "true" ELSE st.pending],
                         new, n, i + 1)

\* One render and commit of part_004's PaperMesh with props (m, v), as far as
\* its text goes. The useMemo of textLines, when the message is new, clears
\* hasRunAnimation, sets refsReady to false during the render and replaces
\* textLineRefs.current. The <Text> lines, keyed by index and message, are
\* rendered only while isTextVisible holds; the old ref callbacks are
\* detached and the new ones attached. Then the two effects run.
LineCommit(t, m, v, first) ==
  LET n == TextLines(m)
      msgChanged == first \/ m # t.message
      ready == IF msgChanged THEN FALSE ELSE ApplyReady(t.pending, t.refsReady)
      hasRun1 == IF msgChanged THEN FALSE ELSE t.hasRun
      refs0 == IF msgChanged THEN [k \in 1 .. n |-> 0] ELSE t.refs
      keep == ~msgChanged /\ t.visible /\ v
      new == IF ~v THEN <<>>
             ELSE IF keep THEN t.els
             ELSE [i \in 1 .. n |-> t.nextUid + i - 1]
      st1 == DetachLineRefs([refs |-> refs0, pending |-> "none"], t.els,
                            IF first THEN 0 ELSE TextLines(t.message), 1)
      st2 == AttachLineRefs(st1, new, n, 1)
      filled == FilledRefs(st2.refs)
      \* effect [isTextVisible, textLines, textLineRefs.current]
      checkRuns == first \/ v # t.visible \/ msgChanged
      p3 == IF checkRuns /\ v /\ Len(filled) = n /\ n > 0 THEN "true" ELSE st2.pending
      \* effect [isTextVisible, refsReady, textLines]
      revealRuns == first \/ v # t.visible \/ ready # t.refsReady \/ msgChanged
      schedules == revealRuns /\ v /\ ready /\ ~hasRun1
      hides == revealRuns /\ ~schedules /\ ~v
      p4 == IF hides THEN "false" ELSE p3
  IN [t EXCEPT
        !.mounted = TRUE, !.message = m, !.visible = v,
        !.refsReady = ready,
        \* a setRefsReady that leaves the state as it is causes no further commit
        !.pending = IF ApplyReady(p4, ready) = ready THEN "none" ELSE p4,
        !.hasRun = IF schedules THEN TRUE ELSE IF hides THEN FALSE ELSE hasRun1,
        !.refs = st2.refs,
        !.els = new,
        !.nextUid = IF v /\ ~keep THEN @ + n ELSE @,
        !.timeouts = IF schedules
                     THEN Append(@, [targets |-> filled, message |-> m])
                     ELSE @]

\* part_004's PaperMesh mounts with a message.
LineMount ==
  \E m \in DOMAIN LineMessages, v \in BOOLEAN :
    /\ ~lt.mounted /\ lt.nextUid + TextLines(m) <= MaxLineElements + 1
    /\ lt' = LineCommit([NoLines EXCEPT !.nextUid = lt.nextUid, !.timeouts = lt.timeouts,
                                        !.animated = lt.animated,
                                        !.lastFire = lt.lastFire], m, v, TRUE)
    /\ UNCHANGED <<foldVars, bowlVars, text, nf, eb>>

\* The parent renders it with another message or another isTextVisible.
LineSetProps ==
  \E m \in DOMAIN LineMessages, v \in BOOLEAN :
    /\ lt.mounted
    /\ m # lt.message \/ v # lt.visible
    /\ lt.nextUid + TextLines(m) <= MaxLineElements + 1
    /\ Len(lt.timeouts) < MaxTimeouts
    /\ lt' = LineCommit(lt, m, v, FALSE)
    /\ UNCHANGED <<foldVars, bowlVars, text, nf, eb>>

\* The render a changed refsReady causes.
LineRerender ==
  /\ lt.mounted
  /\ ApplyReady(lt.pending, lt.refsReady) # lt.refsReady
  /\ Len(lt.timeouts) < MaxTimeouts
  /\ lt' = LineCommit(lt, lt.message, lt.visible, FALSE)
  /\ UNCHANGED <<foldVars, bowlVars, text, nf, eb>>

\* The callback of a reveal timeout runs, 100 ms after the effect that set
\* it: it starts the tweens on every mesh of the validTextRefs it closed over.
RevealTimeout ==
  /\ lt.timeouts # <<>>
  /\ LET to == Head(lt.timeouts)
         acted == to.targets # <<>>
     IN lt' = [lt EXCEPT
                 !.timeouts = Tail(@),
                 !.animated = IF acted THEN @ \cup {to.targets[i] : i \in DOMAIN to.targets}
                              ELSE @,
                 !.lastFire = [fired |-> TRUE, acted |-> acted,
                               hidden |-> lt.mounted /\ ~lt.visible,
                               changed |-> lt.mounted /\ lt.message # to.message,
                               unmounted |-> ~lt.mounted]]
  /\ UNCHANGED <<foldVars, bowlVars, text, nf, eb>>

\* PaperMesh unmounts; its refs and state go with it, its timeouts stay.
LineUnmount ==
  /\ lt.mounted
  /\ lt' = [NoLines EXCEPT !.nextUid = lt.nextUid, !.timeouts = lt.timeouts,
                           !.animated = lt.animated, !.lastFire = lt.lastFire]
  /\ UNCHANGED <<foldVars, bowlVars, text, nf, eb>>

(***************************************************************************)
(* NetflixBackground: the image pool, the row configuration, the selector  *)
(* of rowPosters and its cache.                                            *)
(***************************************************************************)
MaxEvents == 3      \* renders of NetflixBackground in one behaviour
rowCount == 4
CUSTOM_IMAGE_COUNT == 32

\* An image reference: a picsum.photos id, a file of /images/netflix-grid, or
\* an entry of the imageUrls prop.
Img(src, n) == [src |-> src, n |-> n]

fallbackImages ==
  << Img("picsum", 96), Img("picsum", 1060), Img("picsum", 110), Img("picsum", 1047),
     Img("picsum", 237), Img("picsum", 26), Img("picsum", 27), Img("picsum", 28) >>

\* Values of the imageUrls prop: absent, and two pools of the same length.
ImageA == Img("prop", 1)
ImageB == Img("prop", 2)
ImageC == Img("prop", 3)
Pools == { <<>>, <<ImageA, ImageB, ImageC>>, <<ImageC, ImageA, ImageB>> }

\* The widths the window takes.
Widths == {0, 400, 1024, 1025}

\* width: undefined
NoWidth == -1

\* The debounce threshold of useWindowSize; time passes in halves of it.
DEBOUNCE_MS == 150
TimeStep == DEBOUNCE_MS \div 2

\* Of the files loadCustomImages looks for, only optimized/image-1.webp may
\* load; every other check fails.
ScannedImage == 1

\* loadCustomImages: the images found, in index order, then a picsum image
\* for every index that was not found.
CustomImageList(found) ==
  LET all == [i \in 1 .. CUSTOM_IMAGE_COUNT |-> i]
      hit == SelectSeq(all, LAMBDA i : i \in found)
      miss == SelectSeq(all, LAMBDA i : i \notin found)
  IN [k \in 1 .. Len(hit) |-> Img("local", hit[k])]
     \o [k \in 1 .. Len(miss) |-> Img("picsum", ((miss[k] * 37) % 200) + 1)]

\* The pool without the built-in images as the last resort.
AvailableImagesNoFallback(imageUrls, customImages) ==
  IF Len(imageUrls) > 0 THEN imageUrls ELSE customImages

\* availableImages
AvailableImages(imageUrls, customImages) ==
  IF Len(imageUrls) > 0 THEN imageUrls
  ELSE IF Len(customImages) > 0 THEN customImages
  ELSE fallbackImages

\* isDesktop and postersPerRow ((windowWidth || 0) and !windowWidth)
IsDesktop(w) == w >= 1025

PostersPerRow(w) ==
  IF w = NoWidth \/ w = 0 THEN 8
  ELSE IF w < 480 THEN 6
  ELSE IF w < 768 THEN 7
  ELSE IF w < 1024 THEN 8
  ELSE IF w < 1440 THEN 9
  ELSE 10

\* rowConfig[rowIndex].posterCount
PosterCount(w, rowIndex) ==
  PostersPerRow(w) + (IF rowIndex % 2 = 0 THEN 1 ELSE -1)

\* The useMemo of rowConfig
RowConfig(w) ==
  [rowConfig |-> [k \in 1 .. rowCount |->
                    [isScrollLeft |-> (k - 1) % 2 = 0,
                     posterCount |-> PosterCount(w, k - 1)]],
   totalVisiblePosters |-> rowCount * PostersPerRow(w)]

\* Math.ceil(posterCount * (isDesktop ? 3 : 2.5))
TotalPosters(posterCount, desktop) ==
  IF desktop THEN 3 * posterCount ELSE (5 * posterCount + 1) \div 2

\* (rowIndex * 7) % Math.max(1, availableImages.length)
StartOffset(rowIndex, n) == (rowIndex * 7) % (IF n > 1 THEN n ELSE 1)

\* The loop with an index that stops at the last image instead of wrapping.
ComputeRowClamped(pool, rowIndex, posterCount, desktop) ==
  LET n == Len(pool)
  IN [k \in 1 .. TotalPosters(posterCount, desktop) |->
        LET at == StartOffset(rowIndex, n) + (k - 1)
            imageIndex == IF at < n THEN at ELSE n - 1
        IN [id |-> <<rowIndex, k - 1, imageIndex>>,
            imageUrl |-> pool[imageIndex + 1]]]

\* The loop of rowPosters for one row, without the cache. With an empty pool
\* the index is NaN and the image undefined.
ComputeRow(pool, rowIndex, posterCount, desktop) ==
  LET n == Len(pool)
  IN [k \in 1 .. TotalPosters(posterCount, desktop) |->
        IF n = 0
        THEN [id |-> <<rowIndex, k - 1, -1>>, imageUrl |-> Img("undefined", 0)]
        ELSE LET imageIndex == (StartOffset(rowIndex, n) + (k - 1)) % n
             IN [id |-> <<rowIndex, k - 1, imageIndex>>,
                 imageUrl |-> pool[imageIndex + 1]]]

\* `${availableImages.length}-row-${rowIndex}-${config.posterCount}`
CacheKey(pool, rowIndex, posterCount) == <<Len(pool), rowIndex, posterCount>>

\* POSTER_CACHE.has / get: the position of the key, 0 when absent.
CacheIndex(cache, key) ==
  IF \E k \in DOMAIN cache : cache[k].key = key
  THEN CHOOSE k \in DOMAIN cache : cache[k].key = key
  ELSE 0

\* savePosterCache: Array.from(cache.entries()).slice(0, 20)
SavePosterCache(cache) == SubSeq(cache, 1, IF Len(cache) < 20 THEN Len(cache) ELSE 20)

\* The useMemo of rowPosters from row rowIndex on: a cached list is returned
\* as it is; otherwise the row is computed and cached, and the cache saved
\* when the row is row 0.
RECURSIVE RowPostersFrom(_, _, _, _, _, _)
RowPostersFrom(rowIndex, pool, w, cache, storage, rows) ==
  IF rowIndex = rowCount THEN [cache |-> cache, storage |-> storage, rows |-> rows]
  ELSE LET pc == PosterCount(w, rowIndex)
           key == CacheKey(pool, rowIndex, pc)
           at == CacheIndex(cache, key)
           fresh == ComputeRow(pool, rowIndex, pc, IsDesktop(w))
           cache2 == IF at # 0 THEN cache
                     ELSE Append(cache, [key |-> key, posters |-> fresh])
           storage2 == IF at = 0 /\ rowIndex = 0 THEN SavePosterCache(cache2) ELSE storage
       IN RowPostersFrom(rowIndex + 1, pool, w, cache2, storage2,
                         Append(rows, IF at # 0 THEN cache[at].posters ELSE fresh))

\* The first list shown for a pool and a row (history).
ShownIndex(shown, pool, rowIndex) ==
  IF \E k \in DOMAIN shown : shown[k].pool = pool /\ shown[k].row = rowIndex
  THEN CHOOSE k \in DOMAIN shown : shown[k].pool = pool /\ shown[k].row = rowIndex
  ELSE 0

RECURSIVE Remember(_, _, _, _)
Remember(shown, pool, rows, rowIndex) ==
  IF rowIndex = rowCount THEN shown
  ELSE Remember(IF ShownIndex(shown, pool, rowIndex) # 0 THEN shown
                ELSE Append(shown, [pool |-> pool, row |-> rowIndex,
                                    posters |-> rows[rowIndex + 1]]),
                pool, rows, rowIndex + 1)

\* One render of NetflixBackground in state p.
Render(p) ==
  LET pool == AvailableImages(p.imageUrls, p.customImages)
      out == RowPostersFrom(0, pool, p.windowWidth, p.cache, p.storage, <<>>)
  IN [p EXCEPT !.cache = out.cache, !.storage = out.storage,
               !.rowConfig = RowConfig(p.windowWidth).rowConfig,
               !.totalVisiblePosters = RowConfig(p.windowWidth).totalVisiblePosters,
               !.availableImages = pool,
               !.rowPosters = out.rows,
               !.computed = {r \in 0 .. rowCount - 1 :
                               CacheIndex(p.cache, CacheKey(pool, r, PosterCount(p.windowWidth, r))) = 0},
               !.shown = Remember(@, pool, out.rows, 0),
               !.events = @ + 1]

\* A clearTimeout that clears nothing.
ClearNothing(sq, id) == sq

\* clearTimeout(id)
ClearTimeout(sq, id) == SelectSeq(sq, LAMBDA t : t.id # id)

\* The id setTimeout returns: one that no pending timer has.
NewTimerId(sq) ==
  CHOOSE i \in 1 .. Len(sq) + 1 :
    /\ \A k \in DOMAIN sq : sq[k].id # i
    /\ \A j \in 1 .. i - 1 : \E k \in DOMAIN sq : sq[k].id = j

\* handleResize of useWindowSize: clear the pending timer, set a new one.
HandleWindowResize(p) ==
  LET kept == ClearTimeout(p.timers, p.timeoutId)
      id == NewTimerId(kept)
  IN [p EXCEPT !.timers = Append(kept, [id |-> id, delay |-> DEBOUNCE_MS]),
               !.timeoutId = id,
               !.sinceEvent = 0,
               !.updates = 0,
               !.restarted = (p.timers # <<>>)]

\* The end of one run of loadCustomImages: the list it built is stored and,
\* when the run threw, fallbackImages is used instead; the state is set only
\* in a component that is still mounted.
FinishScan(p, live, found, threw) ==
  LET list == IF threw THEN fallbackImages
              ELSE CustomImageList(IF found THEN {ScannedImage} ELSE {})
      stored == [p EXCEPT !.storedImages = IF threw THEN @ ELSE list,
                          !.hasStoredImages = @ \/ ~threw]
  IN IF live
     THEN Render([stored EXCEPT !.customImages = list, !.events = p.events])
     ELSE stored

\* The component mounts: the first render has no width and no custom images.
\* Its effects call handleResize and either take the stored image list (which
\* renders again) or start loadCustomImages, whose first checkImageURL
\* answers from sessionStorage or waits for the image.
PageMount ==
  \E urls \in Pools :
    /\ ~nf.mounted
    /\ nf.events < MaxEvents
    /\ LET first == Render([nf EXCEPT !.mounted = TRUE, !.imageUrls = urls,
                                      !.customImages = <<>>, !.windowWidth = NoWidth])
           sized == HandleWindowResize([first EXCEPT !.timeoutId = 0])
       IN nf' = IF nf.hasStoredImages
                THEN Render([sized EXCEPT !.customImages = nf.storedImages,
                                          !.events = nf.events])
                ELSE IF nf.imgCheck # "none"
                THEN FinishScan(sized, TRUE, nf.imgCheck = "true", FALSE)
                ELSE [sized EXCEPT !.scans = Append(@, [live |-> TRUE])]
    /\ UNCHANGED <<foldVars, bowlVars, text, eb, lt>>

\* The image a run of loadCustomImages waits for loads or fails: onload or
\* onerror stores the answer under 'img-check-<url>', and the run goes on to
\* its end.
ImageLoaded ==
  \E k \in DOMAIN nf.scans, loaded \in BOOLEAN, threw \in BOOLEAN :
    /\ nf' = FinishScan([nf EXCEPT !.imgCheck = IF loaded THEN "true" ELSE "false",
                                   !.scans = Without(@, k)],
                        nf.scans[k].live, loaded, threw)
    /\ UNCHANGED <<foldVars, bowlVars, text, eb, lt>>

\* The window takes another size while the component is mounted: a resize
\* event, which handleResize hears.
PageResize ==
  \E w \in Widths :
    /\ nf.mounted
    /\ nf' = HandleWindowResize([nf EXCEPT !.innerWidth = w])
    /\ nf' # nf
    /\ UNCHANGED <<foldVars, bowlVars, text, eb, lt>>

\* Time passes, by no more than the next timer allows.
TimePassesBy(ms) ==
  /\ nf.timers # <<>>
  /\ \A k \in DOMAIN nf.timers : nf.timers[k].delay >= ms
  /\ nf' = [nf EXCEPT !.timers = [k \in DOMAIN @ |-> [@[k] EXCEPT !.delay = @ - ms]],
                      !.sinceEvent = Min(@ + ms, DEBOUNCE_MS)]
  /\ UNCHANGED <<foldVars, bowlVars, text, eb, lt>>

TimePasses == TimePassesBy(TimeStep)
DebouncePasses == TimePassesBy(DEBOUNCE_MS)

\* A debounce timer fires: setWindowSize with the size of that moment.
ResizeTimeout ==
  \E k \in DOMAIN nf.timers :
    /\ nf.timers[k].delay = 0
    /\ nf.events < MaxEvents
    /\ LET fired == [nf EXCEPT !.timers = Without(@, k)]
       IN nf' = IF nf.mounted
                THEN Render([fired EXCEPT !.windowWidth = nf.innerWidth,
                                          !.updates = Min(@ + 1, MaxCount)])
                ELSE [fired EXCEPT !.firedAfterUnmount = TRUE]
    /\ UNCHANGED <<foldVars, bowlVars, text, eb, lt>>

\* The parent renders it with another imageUrls.
SetImageUrls ==
  \E urls \in Pools :
    /\ nf.mounted /\ urls # nf.imageUrls
    /\ nf.events < MaxEvents
    /\ nf' = Render([nf EXCEPT !.imageUrls = urls])
    /\ UNCHANGED <<foldVars, bowlVars, text, eb, lt>>

\* The component unmounts: the cleanup removes the listener and clears the
\* debounce timer; the module's POSTER_CACHE stays, and a run of
\* loadCustomImages goes on.
PageUnmount ==
  /\ nf.mounted
  /\ nf' = [nf EXCEPT !.mounted = FALSE,
                      !.timers = ClearTimeout(@, nf.timeoutId),
                      !.timeoutId = 0,
                      !.scans = [k \in DOMAIN @ |-> [live |-> FALSE]],
                      !.customImages = <<>>, !.windowWidth = NoWidth,
                      !.sinceEvent = 0, !.updates = 0, !.restarted = FALSE,
                      !.rowConfig = <<>>, !.totalVisiblePosters = 0,
                      !.availableImages = <<>>, !.rowPosters = <<>>, !.computed = {}]
  /\ UNCHANGED <<foldVars, bowlVars, text, eb, lt>>

\* The page is loaded again in the same browser session: the module runs
\* again and POSTER_CACHE is what getPosterCache reads from sessionStorage;
\* what ran in the page before is gone.
PageReload ==
  /\ nf.events > 0
  /\ nf.pageLoads < MaxCount
  /\ nf' = [nf EXCEPT !.mounted = FALSE,
                      !.timers = <<>>, !.timeoutId = 0, !.scans = <<>>,
                      !.imageUrls = <<>>,
                      !.customImages = <<>>, !.windowWidth = NoWidth,
                      !.sinceEvent = 0, !.updates = 0, !.restarted = FALSE,
                      !.rowConfig = <<>>, !.totalVisiblePosters = 0,
                      !.availableImages = <<>>, !.rowPosters = <<>>, !.computed = {},
                      !.cache = nf.storage,
                      !.pageLoads = @ + 1]
  /\ UNCHANGED <<foldVars, bowlVars, text, eb, lt>>

(***************************************************************************)
(* Specifications.                                                         *)
(***************************************************************************)
Init == PaperInit /\ BowlInit /\ version = "current" /\ bowl.variant = "IBS"

Next ==
  \/ \E o \in BOOLEAN : Mount(o)
  \/ \E o \in BOOLEAN : SetIsOpen(o)
  \/ ParentEffect
  \/ MeshCommit
  \/ Tick
  \/ Unmount
  \/ OrphanTick
  \/ HooksThrow
  \/ HooksPass

\* The paper under every interleaving of the parent's requests.
Spec == Init /\ [][Next]_vars

\* ... with the scheduling React and the GSAP ticker guarantee: a pending
\* effect runs, a pending render commits, a running timeline advances.
FairSpec ==
  /\ Spec
  /\ WF_vars(ParentEffect)
  /\ WF_vars(MeshCommit)
  /\ WF_vars(Tick)
  /\ WF_vars(OrphanTick)
  /\ WF_vars(HooksThrow \/ HooksPass)

BowlNext ==
  \/ HandleShuffle
  \/ ScatterTimeout
  \/ IntervalTick
  \/ SettleTimeout
  \/ HandlePaperTap
  \/ HandleClosePaper
  \/ CloseTimeout
  \/ HandleResize
  \/ BowlUnmount

\* The bowl, either component.
BowlStart == PaperInit /\ version = "current" /\ BowlInit
BowlSpec == BowlStart /\ [][BowlNext]_vars

\* The paper under React as it is: a render whose hook count differs from the
\* previous one always throws.
ReactNext ==
  \/ \E o \in BOOLEAN : Mount(o)
  \/ \E o \in BOOLEAN : SetIsOpen(o)
  \/ ParentEffect
  \/ MeshCommit
  \/ Tick
  \/ Unmount
  \/ OrphanTick
  \/ HooksThrow

ReactSpec == Init /\ [][ReactNext]_vars

\* The paper under React with a user who clicks whatever is bound.
ClickNext ==
  \/ \E o \in BOOLEAN : Mount(o)
  \/ \E o \in BOOLEAN : SetIsOpen(o)
  \/ ParentEffect
  \/ MeshCommit
  \/ Tick
  \/ Unmount
  \/ OrphanTick
  \/ HooksThrow
  \/ ClickClose

ClickSpec == Init /\ [][ClickNext]_vars

\* The text of PaperMesh under every sequence of props.
TextNext ==
  \/ TextMount
  \/ TextSetProps
  \/ TextRerender
  \/ TextTween
  \/ TextUnmount

TextSpec == Init /\ [][TextNext]_vars

\* The line-based text of part_004's PaperMesh under every sequence of props.
LineNext ==
  \/ LineMount
  \/ LineSetProps
  \/ LineRerender
  \/ RevealTimeout
  \/ LineUnmount

LineSpec == Init /\ [][LineNext]_vars

\* PaperMesh, while it is mounted, under every sequence of props.
MeshNext ==
  \/ MeshRender
  \/ MeshTick

MeshStart == Init /\ ~bowl.isSmallScreen
MeshSpec == MeshStart /\ [][MeshNext]_vars

\* PaperMesh with and without its texture.
ResourceNext ==
  \/ ResourceRender
  \/ MeshTick
  \/ OrphanTick

ResourceSpec == MeshStart /\ [][ResourceNext]_vars

\* ErrorBoundary around PaperMesh.
BoundaryNext ==
  \/ BoundaryMount
  \/ BoundaryRerender
  \/ ChildRender
  \/ ChildTick
  \/ ChildThrows
  \/ BoundaryUnmount
  \/ ReloadPage
  \/ OrphanTick

BoundarySpec == MeshStart /\ [][BoundaryNext]_vars

\* NetflixBackground under every sequence of props, widths and image lists.
PageNext ==
  \/ PageReload
  \/ PageMount
  \/ ImageLoaded
  \/ PageResize
  \/ DebouncePasses
  \/ ResizeTimeout
  \/ SetImageUrls
  \/ PageUnmount

PageStart == Init /\ ~bowl.isSmallScreen
PageSpec == PageStart /\ [][PageNext]_vars

\* useWindowSize alone, with time in steps of half the debounce threshold.
WindowSizeNext ==
  \/ PageMount
  \/ PageResize
  \/ TimePasses
  \/ ResizeTimeout
  \/ PageUnmount

WindowSizeSpec == PageStart /\ [][WindowSizeNext]_vars

\* InteractiveBowlSection driving its UnfoldingPaper. The paper is mounted with
\* isOpen true and never re-rendered with another isOpen, so its hook count
\* never changes.
SectionNext ==
  \/ SectionShuffle
  \/ ScatterTimeout
  \/ IntervalTick
  \/ SettleTimeout
  \/ SectionTap
  \/ SectionClose
  \/ HandleResize
  \/ SectionUnmount
  \/ ParentEffect
  \/ MeshCommit
  \/ Tick
  \/ OrphanTick

SectionSpec == Init /\ [][SectionNext]_vars

\* The paper as src/unnamed/part_005 has it.
Part005Start == PaperInit /\ BowlInit /\ version = "part_005" /\ bowl.variant = "IBS"
Part005Spec == Part005Start /\ [][Next]_vars

(***************************************************************************)
(* OpenState of UnfoldingPaper, as the component's state and last render   *)
(* show it.                                                                *)
(***************************************************************************)
FullyOpen == mounted /\ isFullyOpen /\ ~isAnimating
Animating == mounted /\ isAnimating
Closed == mounted /\ ~isAnimating /\ ~rendered
\* Nothing is left to run: no effect pending, no render in doubt.
Settled == ~effectPending /\ ~hooksChanged
\* The timeline of the mounted PaperMesh is idle and its effects have seen the
\* parent's current props.
TimelineIdle ==
  /\ mounted /\ mesh.mounted /\ tl.built /\ ~tl.playing
  /\ Settled
  /\ mesh = MeshProps(isOpen, isAnimating, isFullyOpen)

(***************************************************************************)
(* Properties.                                                             *)
(***************************************************************************)
\* C1: rapid toggle safety. Once isOpen went true and then false before the
\* forward run of the timeline completed, no opened completion is reported:
\* isFullyOpen stays false for as long as that close request stands.
C1_RapidToggleNeverOpens == h.rapidClose => ~isFullyOpen

\* C2: the component renders nothing only when CLOSED. In every render in
\* which it is FULLY_OPEN or ANIMATING, the render after isOpen went from true
\* to false included, the overlay with the Canvas and PaperMesh is rendered.
C2_RendersUnlessClosed == (FullyOpen \/ Animating) => rendered

\* C3: a close request received in FULLY_OPEN or ANIMATING leads to CLOSED only
\* through a reverse run of the timeline: while that request stands, the
\* component is CLOSED only if a reverse run has completed since the request.
C3_ClosedOnlyAfterReverse == (h.closeRequested /\ Closed) => h.revDone

\* C4: closing terminates. After a close request received in FULLY_OPEN, with
\* effects, renders and the timeline running and no further open request, the
\* component eventually rests in CLOSED.
C4_ClosingTerminates ==
  h.closeFromFull ~> ((Closed /\ Settled /\ ~isFullyOpen) \/ ~h.closeFromFull)

\* C5: opening terminates. After a mount with isOpen true, with effects,
\* renders and the timeline running and no close request, the component
\* eventually reaches FULLY_OPEN, whichever of the parent's isOpen effect and
\* PaperMesh's build effect runs first.
C5_OpeningTerminates ==
  h.openRequested ~> ((FullyOpen /\ isOpen) \/ ~h.openRequested)

\* C6: a completion callback of the mounted timeline invokes the parent's
\* handler only if the completed direction matches the target at fire time:
\* forward with isOpen, isUnfolding and isParentAnimating all true, reverse
\* with isOpen and isUnfolding false and isParentAnimating true.
C6_HandlerMatchesLatestTarget ==
  (h.lastFire.called /\ ~h.lastFire.afterUnmount) =>
     IF h.lastFire.reverse
     THEN ~h.lastFire.latestOpen /\ ~h.lastFire.latestUnfolding
          /\ h.lastFire.latestParentAnimating
     ELSE h.lastFire.latestOpen /\ h.lastFire.latestUnfolding
          /\ h.lastFire.latestParentAnimating

\* C7: visual state matches logical state. Whenever the timeline is idle it
\* sits at progress 1 in the UNFOLDED pose if isUnfolding is true and at
\* progress 0 in the FOLDED pose if isUnfolding is false.
C7_IdleMatchesTarget ==
  TimelineIdle =>
     IF mesh.isUnfolding
     THEN Progress(tl) = 1000 /\ Pose(tl) = UNFOLDED
     ELSE Progress(tl) = 0 /\ Pose(tl) = FOLDED

\* C8: one timeline per mounted PaperMesh. The timeline a mounted PaperMesh
\* holds is the first one it built: it is never created a second time.
C8_OneTimelinePerMesh == (mesh.mounted /\ tl.built) => tl.gen = 1

\* C9: the timeline is disposed on unmount. After its PaperMesh unmounted no
\* timeline advances and none invokes the parent's completion handler.
C9_DisposedOnUnmount == ~h.orphanAdvanced /\ ~h.orphanCalled

\* C10: unseen-note exclusion. Within a run of NUM_PAPER_BITS consecutive
\* completed shuffles that starts with a full pool, no note id is selected
\* twice.
C10_NoRepeatWithinRun == ~hb.repeated

\* Number of pending settle timeouts.
SettleCount(sq) == Len(SelectSeq(sq, LAMBDA t : t.kind = "settle"))

\* C11: unseenNoteIds is written by the settle step only. A step that is not
\* the settle timeout (shuffle, tap, close, close timer, resize, interval,
\* unmount) leaves it unchanged; in InteractiveBowlSection the settle step takes
\* the selected id out of the pool, the pool being all ids exactly when
\* unseenNoteIds was empty.
C11_UnseenWrittenBySettleOnly ==
  [][ LET old == bowl.unseenNoteIds
          new == bowl'.unseenNoteIds
          pool == IF Len(old) = 0 THEN AllIds ELSE old
          settled == SettleCount(timers') < SettleCount(timers)
      IN /\ ~settled => new = old
         /\ (settled /\ bowl.variant = "IBS" /\ bowl.mounted) =>
               \E k \in DOMAIN pool :
                 new = SelectSeq(pool, LAMBDA id : id # pool[k])
    ]_vars

\* C11 witness: ten notes were shown, the settle step found the pool empty and
\* refilled it, and the note it selected is open on a small screen.
C11_Witness ==
  /\ bowl.variant = "IBS" /\ bowl.mounted
  /\ hb.refilled
  /\ bowl.appStatus = "opened"
  /\ bowl.unseenNoteIds = NewUnseenIds(AllIds, hb.lastSelected)
  /\ bowl.paperBits[1].layout = "faded"
  /\ bowl.isSmallScreen

\* C12: teardown clears every pending shuffle timer. After the bowl component
\* unmounted, at whatever point of a shuffle cycle, no scatter timeout, interval
\* or settle timeout callback runs any more.
C12_NoShuffleCallbackAfterUnmount == ~hb.ranAfterUnmount

\* Number of pending timers of the given kinds.
PendingCount(kinds) == Len(SelectSeq(timers, LAMBDA t : t.kind \in kinds))

\* C13: at most one shuffle cycle is in flight and a cycle starts with no older
\* timer pending. In every state of the mounted bowl at most one scatter or
\* settle timeout and at most one interval is pending, and no close timer is
\* pending next to a timer of a shuffle cycle.
C13_OneCycleInFlight ==
  bowl.mounted =>
    /\ PendingCount({"scatter", "settle"}) <= 1
    /\ PendingCount({"interval"}) <= 1
    /\ ~(PendingCount({"close"}) > 0 /\ PendingCount({"scatter", "settle", "interval"}) > 0)

\* C14: closing from the bowl controller delegates to the fold sequencer first
\* and resets afterwards. Once handleClosePaper was called for the open note,
\* appStatus and paperBits are back at the idle layout and the paper is gone
\* only after a reverse run of its timeline completed.
C14_ReverseBeforeReset ==
  (hb.closeCalled /\ bowl.appStatus = "initial" /\ ~mounted) => h.revDone

\* C15: text is revealed only on a fully open paper. Whenever UnfoldingPaper
\* holds isFullyOpen and isOpen (the isTextVisible it passes down), it is not
\* animating and the fold timeline of its PaperMesh rests at progress 1 in the
\* UNFOLDED pose.
C15_TextOnlyWhenUnfolded ==
  (mounted /\ isFullyOpen /\ isOpen) =>
     /\ ~isAnimating /\ rendered
     /\ tl.built /\ ~tl.playing
     /\ Progress(tl) = 1000 /\ Pose(tl) = UNFOLDED

\* C15 witness: the forward run completed and PaperMesh has been rendered with
\* isTextVisible true.
C15_Witness ==
  /\ mounted /\ isFullyOpen /\ isOpen
  /\ mesh.mounted /\ mesh.isTextVisible
  /\ h.fwdDone

C18_SlotsWrapByModulo ==
  \A r \in nf.computed :
    LET pool == nf.availableImages
        n == Len(pool)
        row == nf.rowPosters[r + 1]
    IN n >= 1 =>
         /\ \A k \in DOMAIN row :
              row[k].imageUrl = pool[((((7 * r) % n) + (k - 1)) % n) + 1]
         /\ (pool = <<ImageA, ImageB, ImageC>> /\ r = 0) =>
              /\ Len(row) >= 5
              /\ [k \in 1 .. 5 |-> row[k].imageUrl]
                   = <<ImageA, ImageB, ImageC, ImageA, ImageB>>

\* Rows 0 and 1 have been computed from the pool [A, B, C], each longer than
\* the pool.
C18_Witness ==
  /\ nf.mounted
  /\ nf.availableImages = <<ImageA, ImageB, ImageC>>
  /\ {0, 1} \subseteq nf.computed
  /\ Len(nf.rowPosters[2]) > 3

\* C20: without imageUrls and without a custom image list the pool is
\* fallbackImages; the pool of a render is never empty, and every computed
\* poster has an index inside the pool and the image at that index.
C20_EmptyPoolFallsBack ==
  nf.mounted =>
    /\ (Len(nf.imageUrls) = 0 /\ Len(nf.customImages) = 0)
         => nf.availableImages = fallbackImages
    /\ Len(nf.availableImages) > 0
    /\ \A r \in nf.computed : \A k \in DOMAIN nf.rowPosters[r + 1] :
         LET poster == nf.rowPosters[r + 1][k]
         IN /\ poster.id[3] \in 0 .. Len(nf.availableImages) - 1
            /\ poster.imageUrl = nf.availableImages[poster.id[3] + 1]
            /\ poster.id[3] = (((7 * r) % Len(nf.availableImages)) + (k - 1))
                                 % Len(nf.availableImages)

\* The first render after a mount without imageUrls: the rows are computed
\* from fallbackImages.
C20_Witness ==
  /\ nf.mounted
  /\ Len(nf.imageUrls) = 0 /\ Len(nf.customImages) = 0
  /\ nf.computed = 0 .. rowCount - 1
  /\ nf.rowPosters[1][1].imageUrl = fallbackImages[1]
  /\ nf.rowPosters[2][3].imageUrl = fallbackImages[2]

\* C19: the list a render returns for a row, from POSTER_CACHE or not, is
\* the list the loop computes from the current pool, the row index, the
\* row's poster count and the desktop or mobile multiplier.
C19_CacheEqualsPureRule ==
  nf.mounted =>
    \A r \in 0 .. rowCount - 1 :
      nf.rowPosters[r + 1]
        = ComputeRow(nf.availableImages, r, PosterCount(nf.windowWidth, r),
                     IsDesktop(nf.windowWidth))

\* C17: whenever a row is produced again for the same pool, each slot that
\* both lists have holds the same image and the same poster id as in the
\* first list produced for that pool and row.
C17_SelectorDeterministic ==
  nf.mounted =>
    \A r \in 0 .. rowCount - 1 :
      LET at == ShownIndex(nf.shown, nf.availableImages, r)
      IN at # 0 =>
           \A k \in DOMAIN nf.shown[at].posters \cap DOMAIN nf.rowPosters[r + 1] :
             /\ nf.rowPosters[r + 1][k].imageUrl = nf.shown[at].posters[k].imageUrl
             /\ nf.rowPosters[r + 1][k].id = nf.shown[at].posters[k].id

\* C21: the layout is a step function of the measured width: 4 rows, and 6,
\* 7, 8, 9 or 10 items per row for a width below 480, below 768, below 1024,
\* below 1440, or from 1440 on, so that two widths of one class give the same
\* layout.
C21_LayoutStepFunction ==
  (nf.mounted /\ nf.windowWidth # NoWidth) =>
    LET w == nf.windowWidth
        items == IF w < 480 THEN 6 ELSE IF w < 768 THEN 7 ELSE IF w < 1024 THEN 8
                 ELSE IF w < 1440 THEN 9 ELSE 10
    IN /\ Len(nf.rowConfig) = 4
       /\ nf.totalVisiblePosters = 4 * items
       /\ \A k \in DOMAIN nf.rowConfig :
            nf.rowConfig[k].posterCount \in {items - 1, items + 1}

\* C22: when the measured width changes to another width of the same
\* breakpoint class, every row's poster list is the list of before and no row
\* is computed.
C22_SameClassResizeHitsCache ==
  [][LET class(w) == IF w < 480 THEN 1 ELSE IF w < 768 THEN 2 ELSE IF w < 1024 THEN 3
                     ELSE IF w < 1440 THEN 4 ELSE 5
     IN (/\ nf.mounted /\ nf'.mounted
         /\ nf.windowWidth # NoWidth
         /\ nf'.windowWidth # nf.windowWidth
         /\ class(nf'.windowWidth) = class(nf.windowWidth))
        => (nf'.rowPosters = nf.rowPosters /\ nf'.computed = {})]_vars

\* C23: useWindowSize debounces: at most one timer is pending; windowSize is
\* set only when 150 ms have passed since the last resize event, with the
\* window's size of that moment, and once per burst of events (until then its
\* timer is pending); no timer fires after the unmount.
C23_ResizeDebounced ==
  [][/\ Len(nf'.timers) <= 1
     /\ ~nf'.firedAfterUnmount
     /\ nf'.updates <= 1
     /\ (nf'.mounted /\ nf'.updates = 0) => Len(nf'.timers) = 1
     /\ (nf'.updates > nf.updates) =>
          /\ nf.sinceEvent = DEBOUNCE_MS
          /\ nf'.windowWidth = nf.innerWidth
          /\ nf'.timers = <<>>]_vars

\* A burst of resize events, each within 150 ms of the one before, has ended
\* with one update to the last size.
C23_Witness ==
  /\ nf.mounted
  /\ nf.restarted
  /\ nf.updates = 1
  /\ nf.innerWidth = 400 /\ nf.windowWidth = 400
  /\ nf.timers = <<>>

\* C24: the caches are append-only: while the page stays loaded an entry of
\* POSTER_CACHE keeps its key and its list, and an 'img-check-<url>' entry
\* that is stored keeps its value.
C24_CachesAppendOnly ==
  [][/\ (nf'.pageLoads = nf.pageLoads) =>
          \A k \in DOMAIN nf.cache :
            k \in DOMAIN nf'.cache /\ nf'.cache[k] = nf.cache[k]
     /\ (nf.imgCheck # "none") => nf'.imgCheck = nf.imgCheck]_vars

\* C25: a timeline built with the FOLDED pose at progress 0, played forward to
\* completion and then in reverse to completion, leaves every animated
\* property (top-left and top-right rotation x and position y, pivot-group
\* rotation y and position x, z) at its FOLDED value.
C25_RoundTrip ==
  LET animated == {"tlRotX", "trRotX", "tlPosY", "trPosY", "grpRotY", "grpPosX", "grpPosZ"}
      n == Len(h.tlRuns)
  IN (/\ tl.built /\ ~(tl.capUnfolding /\ ~tl.capParentAnimating)
      /\ n >= 2 /\ h.tlRuns[n - 1] = "fwd" /\ h.tlRuns[n] = "rev"
      /\ ~tl.playing)
     => \A f \in animated : Pose(tl)[f] = FOLDED[f]

C25_Witness ==
  /\ mesh.mounted /\ tl.built /\ ~tl.capUnfolding
  /\ h.tlRuns = <<"fwd", "rev">> /\ ~tl.playing
  /\ Progress(tl) = 0
  /\ Pose(tl).tlRotX = -PI /\ Pose(tl).grpPosX = -HALF_PAPER_WIDTH

\* C27: a render of PaperMesh issues play() or reverse() only when its target
\* (isUnfolding) flips while the timeline is idle: it then plays forward if
\* the target is open and progress < 1, and reverses if the target is closed
\* and progress > 0. A render without a flip, and a flip that arrives while
\* the timeline is running, leave the timeline as it is.
C27_DirectionControl ==
  [][(mesh.mounted /\ tl.built /\ mesh' # mesh /\ mesh'.mounted)
       => LET flip == mesh'.isUnfolding # mesh.isUnfolding
              open == mesh'.isUnfolding
          IN /\ (tl.playing \/ ~flip) => tl' = tl
             /\ (flip /\ ~tl.playing /\ open /\ Progress(tl) < 1000)
                  => tl'.playing /\ ~tl'.reversed /\ tl'.pos = tl.pos
             /\ (flip /\ ~tl.playing /\ ~open /\ Progress(tl) > 0)
                  => tl'.playing /\ tl'.reversed /\ tl'.pos = tl.pos
             /\ (flip /\ ~tl.playing /\ open /\ Progress(tl) = 1000) => tl' = tl
             /\ (flip /\ ~tl.playing /\ ~open /\ Progress(tl) = 0) => tl' = tl]_vars

\* The target flipped to closed while the forward run was under way: the run
\* went on.
C27_Witness ==
  /\ mesh.mounted /\ ~mesh.isUnfolding
  /\ tl.built /\ tl.playing /\ ~tl.reversed
  /\ Progress(tl) > 0 /\ Progress(tl) < 1000
  /\ h.tlRuns = <<"fwd", "rev">>

\* C28: the render that builds the timeline leaves it, when the target is open
\* and the parent is not mid-transition (isUnfolding and not
\* isParentAnimating), at its end, not playing, with the UNFOLDED pose (top
\* rotations 0, top y at HALF_PAPER_HEIGHT/2, pivot rotation 0, pivot x and z
\* 0); otherwise at progress 0 with the FOLDED pose.
C28_InitialSeek ==
  [][(~tl.built /\ tl'.built)
       => LET pose == Pose(tl')
          IN IF mesh'.isUnfolding /\ ~mesh'.isParentAnimating
             THEN /\ Progress(tl') = 1000 /\ ~tl'.playing
                  /\ pose.tlRotX = 0 /\ pose.trRotX = 0
                  /\ pose.tlPosY = HALF_PAPER_HEIGHT \div 2
                  /\ pose.trPosY = HALF_PAPER_HEIGHT \div 2
                  /\ pose.grpRotY = 0 /\ pose.grpPosX = 0 /\ pose.grpPosZ = 0
             ELSE /\ Progress(tl') = 0
                  /\ pose.tlRotX = -PI /\ pose.trRotX = -PI
                  /\ pose.tlPosY = 0 /\ pose.trPosY = 0
                  /\ pose.grpRotY = -PI /\ pose.grpPosX = -HALF_PAPER_WIDTH
                  /\ pose.grpPosZ = 5]_vars

\* Built while the target was open and the parent not mid-transition: at the
\* end, idle, no run completed.
C28_Witness ==
  /\ mesh.mounted /\ mesh.isUnfolding /\ ~mesh.isParentAnimating
  /\ tl.built /\ tl.capUnfolding /\ ~tl.capParentAnimating
  /\ Progress(tl) = 1000 /\ ~tl.playing /\ h.tlRuns = <<>>
  /\ Pose(tl).grpPosX = 0

\* C29: every forward run of a timeline plays at rate 1 and every reverse run
\* at rate 1.5, a forward run that follows an earlier reverse run included.
C29_ReverseFasterThanForward ==
  (tl.built /\ tl.playing) => tl.timeScale = (IF tl.reversed THEN 15 ELSE 10)

\* C30: at every playhead position of a timeline, in forward and in reverse
\* playback, either both top segments are flat (their stage-1 tweens have run
\* their span) or the pivot group's rotation and position have their folded
\* values: the pivot group does not move before stage 1 has ended, and in
\* reverse the top segments do not move before the pivot group is back.
C30_StageOrdering ==
  tl.built =>
    LET pose == Pose(tl)
        t == Frames[tl.pos]
        topsFlat == /\ pose.tlRotX = 0 /\ pose.trRotX = 0
                    /\ pose.tlPosY = HALF_PAPER_HEIGHT \div 2
                    /\ pose.trPosY = HALF_PAPER_HEIGHT \div 2
        pivotFolded == /\ pose.grpRotY = -PI /\ pose.grpPosX = -HALF_PAPER_WIDTH
                       /\ pose.grpPosZ = 5
        foldedBuild == ~(tl.capUnfolding /\ ~tl.capParentAnimating)
    IN /\ topsFlat \/ pivotFolded
       /\ (foldedBuild /\ t < StageOneEnd(1)) => pivotFolded
       /\ (foldedBuild /\ t > StageOneEnd(1)) => topsFlat

\* A reverse run, after a completed forward run, in the middle of stage 1: the
\* top segments are folding and the pivot group is back at its folded values.
C30_Witness ==
  /\ tl.built /\ tl.playing /\ tl.reversed /\ h.tlRuns = <<"fwd">>
  /\ Frames[tl.pos] = 400
  /\ Pose(tl).tlRotX < 0 /\ Pose(tl).tlRotX > -PI
  /\ Pose(tl).grpRotY = -PI /\ Pose(tl).grpPosX = -HALF_PAPER_WIDTH

\* C26: once an ErrorBoundary has caught an error, every render for the rest
\* of the session (until the page is reloaded) has hasError true and returns
\* the fallback presentation, never the children.
C26_ContainedForSession ==
  (eb.caught /\ eb.mounted)
    => eb.state.hasError /\ eb.out \in {"fallbackRender", "default"}

\* C26, amended: the ErrorBoundary instance that caught an error has hasError
\* true for as long as it stays mounted, and every render of it from the
\* catch on returns the fallback presentation (fallbackRender when given,
\* otherwise the default panel), never the children.
C26_ContainedWhileMounted ==
  [][LET fallback == IF eb'.fallbackRender THEN "fallbackRender" ELSE "default"
         contained == /\ eb'.state.hasError /\ eb'.out = fallback
                      /\ ~mesh'.mounted
     IN /\ (eb.mounted /\ eb.state.hasError /\ eb'.mounted /\ eb'.id = eb.id)
             => contained
        /\ (eb.mounted /\ ~eb.caught /\ eb'.caught) => contained
        /\ (eb.mounted /\ ~eb.state.hasError /\ eb'.mounted /\ eb'.state # eb.state)
             => contained]_vars

\* The boundary caught error 2 and, re-rendered without a fallbackRender,
\* shows the default panel; the timeline of the PaperMesh it unmounted is
\* still running.
C26_Witness ==
  /\ eb.mounted /\ eb.state = [hasError |-> TRUE, error |-> 2, errorInfo |-> 2]
  /\ eb.out = "default" /\ ~mesh.mounted
  /\ orphan.built /\ orphan.playing

C33_RevealLatched ==
  text.mounted =>
    LET n == Len(Characters(text.message))
        registered == Len(ValidTargets(text.charRefs))
    IN /\ text.reveal.ran
            => /\ text.visible /\ n > 0
               /\ registered = n /\ text.count = n
               /\ Len(text.reveal.targets) = n
       /\ registered < n => ~text.reveal.ran

\* The reveal ran over the three registered targets of a three-character
\* message.
C33_Witness ==
  /\ text.mounted /\ text.visible /\ text.reveal.ran
  /\ Len(Characters(text.message)) = 3
  /\ text.count = 3 /\ Len(ValidTargets(text.charRefs)) = 3

C35_StaleRevealDoesNothing ==
  (lt.lastFire.fired
     /\ (lt.lastFire.hidden \/ lt.lastFire.changed \/ lt.lastFire.unmounted))
    => ~lt.lastFire.acted

\* C36: onClose is invoked only from FULLY_OPEN: in the state a click on the
\* overlay or on the close button calls it from, isOpen and isFullyOpen hold
\* and isAnimating does not.
C36_CloseOnlyFromFullyOpen ==
  h.closeCall.called =>
    (h.closeCall.isOpen /\ h.closeCall.isFullyOpen /\ ~h.closeCall.isAnimating)

\* C36 witness: onClose was called, and the paper has gone on to close.
C36_Witness == h.closeCall.called /\ mounted /\ ~isOpen /\ isAnimating /\ tl.reversed

\* The timeline of the mounted PaperMesh was built by a render with isUnfolding
\* and without isParentAnimating: its build took the snap branch.
SnapBuilt == mesh.mounted /\ tl.built /\ tl.capUnfolding /\ ~tl.capParentAnimating

\* C37: a timeline whose build snapped it to its end, once a close request has
\* played it in reverse down to progress 0, shows the FOLDED pose.
C37_ReverseAfterSnapEndsFolded ==
  (version = "current" /\ SnapBuilt /\ tl.reversed /\ ~tl.playing /\ Progress(tl) = 0)
    => Pose(tl) = FOLDED

\* C38: in InteractiveBowlSection isPaperOpen is true only if paperToDisplay is
\* set and appStatus is 'opened', also after a shuffle started while a paper
\* is open.
C38_ModalFlagsConsistent ==
  (bowl.variant = "IBS" /\ bowl.isPaperOpen)
    => (bowl.paperToDisplay # -1 /\ bowl.appStatus = "opened")

\* The ids of the bits that have isChosenForOpening.
ChosenIds == {bowl.paperBits[i].id : i \in {j \in DOMAIN bowl.paperBits : bowl.paperBits[j].chosen}}
ChosenCount == Cardinality({j \in DOMAIN bowl.paperBits : bowl.paperBits[j].chosen})

\* C39: while appStatus is 'selected' exactly one bit has isChosenForOpening,
\* it is the note the last settle step picked and its id is not in
\* unseenNoteIds; while appStatus is 'opened' the displayed paper is that
\* chosen note.
C39_ChosenIsLastPick ==
  /\ bowl.appStatus = "selected"
       => /\ ChosenCount = 1
          /\ ChosenIds = {hb.lastSelected}
          /\ \A k \in DOMAIN bowl.unseenNoteIds : bowl.unseenNoteIds[k] # hb.lastSelected
  /\ bowl.appStatus = "opened"
       => /\ bowl.paperToDisplay = hb.lastSelected
          /\ ChosenIds = {bowl.paperToDisplay}

\* C39 witness: a second shuffle has settled on another note than the one
\* opened before it, and that note is displayed.
C39_Witness ==
  /\ bowl.mounted /\ bowl.appStatus = "opened" /\ hb.runLen = 2
  /\ bowl.paperToDisplay = hb.lastSelected /\ ChosenCount = 1

\* C40: paperBits holds each of the NUM_PAPER_BITS note ids exactly once,
\* whatever sequence of scatter, interval reshuffle, settle, tap, close and
\* resize has run.
C40_BitsArePermutation ==
  /\ Len(bowl.paperBits) = NUM_PAPER_BITS
  /\ \A k \in DOMAIN AllIds :
       Cardinality({i \in DOMAIN bowl.paperBits : bowl.paperBits[i].id = AllIds[k]}) = 1

\* C40 witness: a second settle step has rearranged the bits around a pick that
\* is not at the first array index.
C40_Witness ==
  /\ bowl.appStatus = "selected" /\ hb.runLen = 2
  /\ \E i \in DOMAIN bowl.paperBits : i > 1 /\ bowl.paperBits[i].chosen

====
